---- MODULE Spec2Model ----
(***************************************************************************)
(* A model of app.py (PrettyCW/APrettyGoodSociety): the CSV loaders with   *)
(* their defensive coercions, the file-backed caches and the request       *)
(* handlers that read them.                                                *)
(*                                                                         *)
(* Python values are modelled as follows.                                  *)
(*   str            a sequence of one-character strings, <<"4","2">>       *)
(*   str or None    the same, with None written StrNone                    *)
(*   any other Optional   NoneV, or Some(x)                                *)
(*   dict           a record (fixed keys) or a function (computed keys)    *)
(*   list           a sequence                                             *)
(***************************************************************************)
EXTENDS Integers, Sequences, FiniteSets, TLC

\* ------------------------------------------------------------------ bounds

\* Number of request threads of the server.
NumThreads == 2
\* The main CSV file takes modification timestamps 1..MaxMtime.
MaxMtime == 3

\* Each auxiliary CSV file takes the versions 1..MaxAuxVer.
MaxAuxVer == 2

\* A CSV field drawn as input is None or a text of up to MaxFieldLen characters.
MaxFieldLen == 2

Threads == 1..NumThreads

\* ----------------------------------------------------------- Python values

NoneV == [none |-> TRUE]
Some(x) == [none |-> FALSE, v |-> x]
\* None where a str is expected (a short CSV row: DictReader's restval).
StrNone == <<"None">>

DigitChars == <<"0", "1", "2", "3", "4", "5", "6", "7", "8", "9">>
IsDigit(c) == \E i \in 1..10 : DigitChars[i] = c
DigitVal(c) == (CHOOSE i \in 1..10 : DigitChars[i] = c) - 1
IsSpace(c) == c = " "

RECURSIVE lstrip(_)
lstrip(s) == IF s # <<>> /\ IsSpace(Head(s)) THEN lstrip(Tail(s)) ELSE s

RECURSIVE rstrip(_)
rstrip(s) ==
    IF s # <<>> /\ IsSpace(s[Len(s)]) THEN rstrip(SubSeq(s, 1, Len(s) - 1)) ELSE s

\* str.strip()
strip(s) == rstrip(lstrip(s))

\* The digits of a literal accepted by int(): the text stripped of white space
\* and of one leading sign.
IntBody(s) ==
    LET t == strip(s)
    IN  IF t # <<>> /\ Head(t) \in {"-", "+"} THEN Tail(t) ELSE t

\* int(s) does not raise ValueError.
IntParses(s) ==
    /\ IntBody(s) # <<>>
    /\ \A i \in 1..Len(IntBody(s)) : IsDigit(IntBody(s)[i])

RECURSIVE DigitsValue(_)
DigitsValue(d) ==
    IF d = <<>> THEN 0
    ELSE 10 * DigitsValue(SubSeq(d, 1, Len(d) - 1)) + DigitVal(d[Len(d)])

\* int(s), for a text that parses.
IntValue(s) ==
    LET t == strip(s)
    IN  IF Head(t) = "-" THEN 0 - DigitsValue(IntBody(s)) ELSE DigitsValue(IntBody(s))

\* int(value) raises: TypeError for None, ValueError for a text that is no integer.
IntRaises(value) == value = StrNone \/ ~IntParses(value)

\* safe_int(value, default) of a CSV field (a str or None).
safe_int(value, default) ==
    IF IntRaises(value) THEN default ELSE IntValue(value)

\* safe_string(value): (value or "").strip()
safe_string(value) == IF value = StrNone THEN <<>> ELSE strip(value)

\* str.isdigit()
isdigit(s) == s # <<>> /\ \A i \in 1..Len(s) : IsDigit(s[i])

\* ----------------------------------------------------- the main results file

\* One line of league_data.csv as csv.DictReader yields it.
ResultCsvRow(pid, name, ev, date, score, rank, points, pr, season, tier) ==
    [player_id |-> pid, player_name |-> name, event_id |-> ev, event_date |-> date,
     score |-> score, rank |-> rank, points |-> points, event_pr |-> pr,
     season |-> season, tier |-> tier]

\* The body of the loop of load_csv_cached: one row, converted and normalised.
NormalizeResultRow(row) ==
    [player_id   |-> Some(safe_int(row.player_id, 0)),
     player_name |-> safe_string(row.player_name),
     event_id    |-> safe_string(row.event_id),
     event_date  |-> safe_string(row.event_date),
     score       |-> safe_int(row.score, 0),
     rank        |-> safe_int(row.rank, 0),
     points      |-> safe_int(row.points, 0),
     event_pr    |-> safe_int(row.event_pr, 0),
     season      |-> safe_int(row.season, 0),
     tier        |-> safe_string(row.tier)]

\* The rows load_csv_cached builds from a file's lines.
LoadResultRows(lines) == [i \in 1..Len(lines) |-> NormalizeResultRow(lines[i])]

\* The content of league_data.csv when its modification timestamp is v: two
\* events of season 1 and one of season 2; the scores differ from one version
\* of the file to the next.
CSVContent(v) ==
    << ResultCsvRow(<<"1">>, <<"a">>, <<"e","1">>, <<"0","1">>, <<"7", DigitChars[v + 1]>>,
                    <<"1">>, <<"1","0">>, <<"9","0">>, <<"1">>, <<"P">>),
       ResultCsvRow(<<"2">>, <<"b">>, <<"e","1">>, <<"0","1">>, <<"7","5">>,
                    <<"2">>, <<"7">>, <<"8","5">>, <<"1">>, <<"P">>),
       ResultCsvRow(<<"1">>, <<"a">>, <<"e","2">>, <<"0","2">>, <<"6", DigitChars[v + 1]>>,
                    <<"1">>, <<"5">>, <<"8","0">>, <<"2">>, <<"C">>) >>

\* --------------------------------------------------------- dicts and sorting

\* A dict is the sequence of its items, [key |-> k, val |-> v], in insertion
\* order, as Python keeps them.
DictKeys(d) == {d[i].key : i \in 1..Len(d)}
DictHas(d, k) == k \in DictKeys(d)
DictGet(d, k) == d[CHOOSE i \in 1..Len(d) : d[i].key = k].val
\* d[k] = v
DictPut(d, k, v) ==
    IF DictHas(d, k)
    THEN [i \in 1..Len(d) |-> IF d[i].key = k THEN [key |-> k, val |-> v] ELSE d[i]]
    ELSE Append(d, [key |-> k, val |-> v])

\* The characters of the model's texts, in code point order.
Alphabet ==
    <<" ", "+", "-", "0", "1", "2", "3", "4", "5", "6", "7", "8", "9",
      "A", "B", "C", "P", "S", "a", "b", "c", "e", "g", "i", "o", "t", "v", "x", "y">>
CharCode(c) == CHOOSE i \in 1..Len(Alphabet) : Alphabet[i] = c

\* a < b for two str values.
RECURSIVE StrLess(_, _)
StrLess(a, b) ==
    IF b = <<>> THEN FALSE
    ELSE IF a = <<>> THEN TRUE
    ELSE IF Head(a) = Head(b) THEN StrLess(Tail(a), Tail(b))
    ELSE CharCode(Head(a)) < CharCode(Head(b))

\* list.sort is stable: e is put behind every element that must stay before it.
InsertSorted(res, e, Before(_, _)) ==
    LET n == Len(res)
        k == CHOOSE j \in 0..n :
                /\ \A i \in 1..j : Before(res[i], e)
                /\ j = n \/ ~Before(res[j + 1], e)
    IN  SubSeq(res, 1, k) \o <<e>> \o SubSeq(res, k + 1, n)

\* list.sort with the order given by Before: for sort(key=K) an element stays
\* before e unless K(e) < K(it); for sort(key=K, reverse=True), unless
\* K(it) < K(e). Equal keys keep their order either way.
StableSort(s, Before(_, _)) ==
    LET F[n \in 0..Len(s)] ==
            IF n = 0 THEN <<>> ELSE InsertSorted(F[n - 1], s[n], Before)
    IN  F[Len(s)]

\* (a1, a2) < (b1, b2) for tuples of two ints.
PairLess(a1, a2, b1, b2) == a1 < b1 \/ (a1 = b1 /\ a2 < b2)

\* sorted(set of str)
SortedStrs(S) ==
    LET F[T \in SUBSET S] ==
            IF T = {} THEN <<>>
            ELSE LET m == CHOOSE x \in T : \A y \in T \ {x} : StrLess(x, y)
                 IN  <<m>> \o F[T \ {m}]
    IN  F[S]

\* ---------------------------------------------------- the auxiliary loaders

AvgStr == <<"A", "v", "g">>
SocietyAvgStr == <<"S", "o", "c", "i", "e", "t", "y", " ", "A", "v", "g">>

\* The outcome of a loader: the value it returns, or an exception it lets out.
Returned(x) == [raises |-> FALSE, val |-> x]
LoadRaised == [raises |-> TRUE]

\* load_2v2_teams, the loop: teams[int(r["team_id"])] = {...}
RECURSIVE Teams2v2Dict(_)
Teams2v2Dict(lines) ==
    IF lines = <<>> THEN <<>>
    ELSE LET r == lines[Len(lines)]
         IN  DictPut(Teams2v2Dict(SubSeq(lines, 1, Len(lines) - 1)),
                     IntValue(r.team_id),
                     [team_name |-> r.team_name, conference |-> r.conference,
                      players |-> <<r.player1, r.player2>>])

\* load_2v2_teams reading a file of these lines: int() of a team_id that is no
\* integer raises out of the loader.
Load2v2Teams(lines) ==
    IF \E i \in 1..Len(lines) : IntRaises(lines[i].team_id)
    THEN LoadRaised
    ELSE Returned(Teams2v2Dict(lines))

\* safe_string(r.get("date")) or None
MatchDate(r) == IF safe_string(r.date) = <<>> THEN StrNone ELSE safe_string(r.date)

\* r.get("point_diff", "").strip() raises AttributeError when the field is None.
PointDiffRaises(r) == r.point_diff = StrNone

\* safe_int(r.get("point_diff")) if r.get("point_diff", "").strip() else None
MatchPointDiff(r) ==
    IF strip(r.point_diff) # <<>> THEN Some(safe_int(r.point_diff, 0)) ELSE NoneV

\* The dict load_2v2_matches and load_1v1_matches append for one line.
MatchRecord(r) ==
    [match_id   |-> safe_int(r.match_id, 0),
     season     |-> safe_int(r.season, 0),
     phase      |-> safe_string(r.phase),
     date       |-> MatchDate(r),
     winner_id  |-> safe_int(r.winner_id, 0),
     loser_id   |-> safe_int(r.loser_id, 0),
     point_diff |-> MatchPointDiff(r)]

\* load_2v2_matches reading a file of these lines.
Load2v2Matches(lines) ==
    IF \E i \in 1..Len(lines) : PointDiffRaises(lines[i])
    THEN LoadRaised
    ELSE Returned([i \in 1..Len(lines) |-> MatchRecord(lines[i])])

\* load_1v1_players, the loop: players[int(r["player_id"])] = {...}
RECURSIVE Players1v1Dict(_)
Players1v1Dict(lines) ==
    IF lines = <<>> THEN <<>>
    ELSE LET r == lines[Len(lines)]
         IN  DictPut(Players1v1Dict(SubSeq(lines, 1, Len(lines) - 1)),
                     IntValue(r.player_id),
                     [player_name |-> r.player_name, conference |-> r.conference])

\* load_1v1_players reading a file of these lines.
Load1v1Players(lines) ==
    IF \E i \in 1..Len(lines) : IntRaises(lines[i].player_id)
    THEN LoadRaised
    ELSE Returned(Players1v1Dict(lines))

\* load_1v1_matches reading a file of these lines.
Load1v1Matches(lines) ==
    IF \E i \in 1..Len(lines) : PointDiffRaises(lines[i])
    THEN LoadRaised
    ELSE Returned([i \in 1..Len(lines) |-> MatchRecord(lines[i])])

\* load_team_data skips a line: not row.get("player_id")
TeamRowSkipped(row) == row.player_id = StrNone \/ row.player_id = <<>>

\* load_team_data: opponent_player_id.isdigit() on None raises AttributeError,
\* which the function's except clause (FileNotFoundError, ValueError, KeyError)
\* does not catch.
TeamRowRaises(row) ==
    /\ ~TeamRowSkipped(row)
    /\ row.team_opponent # SocietyAvgStr
    /\ row.event_1v1_opponent = StrNone

\* The opponent of an assignment: an int when the text is all digits, else the
\* text itself ("Avg" for the society average).
OpponentInt(n) == [isint |-> TRUE, id |-> n, text |-> <<>>]
OpponentText(s) == [isint |-> FALSE, id |-> 0, text |-> s]

\* load_team_data: the assignment appended for one line.
TeamAssignment(row) ==
    [player_id |-> safe_int(row.player_id, 0),
     team_id   |-> safe_int(row.team_id, 0),
     team_name |-> safe_string(row.team_name),
     opponent_player_id |->
         IF row.team_opponent = SocietyAvgStr THEN OpponentText(AvgStr)
         ELSE IF isdigit(row.event_1v1_opponent)
              THEN OpponentInt(safe_int(row.event_1v1_opponent, 0))
              ELSE OpponentText(row.event_1v1_opponent),
     team_opponent |->
         IF row.team_opponent = SocietyAvgStr THEN NoneV
         ELSE IF row.team_opponent # StrNone /\ row.team_opponent # <<>>
              THEN Some(safe_int(row.team_opponent, 0))
              ELSE NoneV,
     event  |-> safe_string(row.event),
     season |-> safe_int(row.season, 0)]

\* load_team_data: team_assignments, one per line that is not skipped.
RECURSIVE TeamAssignments(_)
TeamAssignments(lines) ==
    IF lines = <<>> THEN <<>>
    ELSE LET rest == TeamAssignments(SubSeq(lines, 1, Len(lines) - 1))
             row == lines[Len(lines)]
         IN  IF TeamRowSkipped(row) THEN rest ELSE Append(rest, TeamAssignment(row))

\* load_team_data: teams, the first assignment of each team_id.
RECURSIVE TeamsOfAssignments(_)
TeamsOfAssignments(tas) ==
    IF tas = <<>> THEN <<>>
    ELSE LET rest == TeamsOfAssignments(SubSeq(tas, 1, Len(tas) - 1))
             ta == tas[Len(tas)]
         IN  IF DictHas(rest, ta.team_id) THEN rest
             ELSE DictPut(rest, ta.team_id,
                          [team_id |-> ta.team_id, team_name |-> ta.team_name,
                           season |-> ta.season])

\* load_team_data reading a file of these lines: (teams, team_assignments).
LoadTeamData(lines) ==
    IF \E i \in 1..Len(lines) : TeamRowRaises(lines[i])
    THEN LoadRaised
    ELSE Returned([teams |-> TeamsOfAssignments(TeamAssignments(lines)),
                   team_assignments |-> TeamAssignments(lines)])

\* load_csv_cached reading a file of these lines: safe_int and safe_string
\* never raise.
LoadResults(lines) == Returned(LoadResultRows(lines))

\* ------------------------------------------------------------- aggregators

\* An exact half rounded up.
RoundHalfUp(sum, count) == (2 * sum + count) \div (2 * count)

\* round(x) of the float sum / count: to the nearest integer, an exact half to
\* the even one.
RoundHalfEven(sum, count) ==
    LET q == sum \div count
        r == sum % count
    IN  IF 2 * r < count THEN q
        ELSE IF 2 * r > count THEN q + 1
        ELSE IF q % 2 = 0 THEN q ELSE q + 1

\* The first loop passing over every falsy player_id: None and 0.
PlayerStatsSkipsFalsy(season_rows) ==
    LET F[n \in 0..Len(season_rows)] ==
            IF n = 0 THEN <<>>
            ELSE LET r == season_rows[n]
                     pid == r.player_id
                     old == IF DictHas(F[n - 1], pid)
                            THEN DictGet(F[n - 1], pid)
                            ELSE [player_id |-> pid, player_name |-> r.player_name,
                                  wins |-> 0, podiums |-> 0, top10s |-> 0,
                                  events_played |-> 0, points |-> 0,
                                  event_pr_sum |-> 0, event_pr_count |-> 0]
                     new == [old EXCEPT
                               !.events_played = @ + 1,
                               !.points = @ + r.points,
                               !.event_pr_sum = @ + r.event_pr,
                               !.event_pr_count = @ + 1,
                               !.wins = IF r.rank = 1 THEN @ + 1 ELSE @,
                               !.podiums = IF 1 <= r.rank /\ r.rank <= 3 THEN @ + 1 ELSE @,
                               !.top10s = IF 1 <= r.rank /\ r.rank <= 10 THEN @ + 1 ELSE @]
                 IN  IF pid = NoneV \/ pid = Some(0) THEN F[n - 1] ELSE DictPut(F[n - 1], pid, new)
    IN  F[Len(season_rows)]

\* calculate_player_stats, first loop: stats, a dict keyed by player_id; a row
\* whose player_id is None is passed over.
PlayerStats(season_rows) ==
    LET F[n \in 0..Len(season_rows)] ==
            IF n = 0 THEN <<>>
            ELSE LET r == season_rows[n]
                     pid == r.player_id
                     old == IF DictHas(F[n - 1], pid)
                            THEN DictGet(F[n - 1], pid)
                            ELSE [player_id |-> pid, player_name |-> r.player_name,
                                  wins |-> 0, podiums |-> 0, top10s |-> 0,
                                  events_played |-> 0, points |-> 0,
                                  event_pr_sum |-> 0, event_pr_count |-> 0]
                     new == [old EXCEPT
                               !.events_played = @ + 1,
                               !.points = @ + r.points,
                               !.event_pr_sum = @ + r.event_pr,
                               !.event_pr_count = @ + 1,
                               !.wins = IF r.rank = 1 THEN @ + 1 ELSE @,
                               !.podiums = IF 1 <= r.rank /\ r.rank <= 3 THEN @ + 1 ELSE @,
                               !.top10s = IF 1 <= r.rank /\ r.rank <= 10 THEN @ + 1 ELSE @]
                 IN  IF pid = NoneV THEN F[n - 1] ELSE DictPut(F[n - 1], pid, new)
    IN  F[Len(season_rows)]

\* calculate_player_stats, second loop: one leaderboard entry per stats value.
LeaderboardEntry(agg) ==
    [player_id     |-> agg.player_id,
     player_name   |-> agg.player_name,
     points        |-> agg.points,
     wins          |-> agg.wins,
     podiums       |-> agg.podiums,
     top10s        |-> agg.top10s,
     events_played |-> agg.events_played,
     prettyrating  |-> IF agg.event_pr_count # 0
                       THEN RoundHalfEven(agg.event_pr_sum, agg.event_pr_count)
                       ELSE 0]

\* leaderboard.sort(key=lambda x: (x["points"], x["wins"]), reverse=True)
LeaderboardBefore(a, b) == ~PairLess(a.points, a.wins, b.points, b.wins)

calculate_player_stats(season_rows) ==
    LET stats == PlayerStats(season_rows)
    IN  StableSort([i \in 1..Len(stats) |-> LeaderboardEntry(stats[i].val)],
                   LeaderboardBefore)

\* The stats dict of a pairwise leaderboard: one zeroed entry per entity of the
\* selected conference, in the order of the roster.
PairwiseInit(roster, selected_conf) ==
    LET F[n \in 0..Len(roster)] ==
            IF n = 0 THEN <<>>
            ELSE IF roster[n].val.conference = selected_conf
                 THEN Append(F[n - 1],
                             [key |-> roster[n].key,
                              val |-> [wins |-> 0, losses |-> 0, matches_played |-> 0,
                                       point_diff |-> 0]])
                 ELSE F[n - 1]
    IN  F[Len(roster)]

\* The tally with the differential added to the loser's too.
TallyMatchLoserGains(stats, m) ==
    IF m.point_diff = NoneV THEN stats
    ELSE LET diff == m.point_diff.v
             w == IF DictHas(stats, m.winner_id)
                  THEN DictPut(stats, m.winner_id,
                               [DictGet(stats, m.winner_id) EXCEPT
                                  !.wins = @ + 1, !.matches_played = @ + 1,
                                  !.point_diff = @ + diff])
                  ELSE stats
         IN  IF DictHas(w, m.loser_id)
             THEN DictPut(w, m.loser_id,
                          [DictGet(w, m.loser_id) EXCEPT
                             !.losses = @ + 1, !.matches_played = @ + 1,
                             !.point_diff = @ + diff])
             ELSE w

\* One match tallied: nothing when point_diff is None, else the winner's and the
\* loser's entries, if they are in stats.
TallyMatch(stats, m) ==
    IF m.point_diff = NoneV THEN stats
    ELSE LET diff == m.point_diff.v
             w == IF DictHas(stats, m.winner_id)
                  THEN DictPut(stats, m.winner_id,
                               [DictGet(stats, m.winner_id) EXCEPT
                                  !.wins = @ + 1, !.matches_played = @ + 1,
                                  !.point_diff = @ + diff])
                  ELSE stats
         IN  IF DictHas(w, m.loser_id)
             THEN DictPut(w, m.loser_id,
                          [DictGet(w, m.loser_id) EXCEPT
                             !.losses = @ + 1, !.matches_played = @ + 1,
                             !.point_diff = @ - diff])
             ELSE w

\* for m in matches: the tally of the whole list.
PairwiseTally(stats0, matches) ==
    LET F[n \in 0..Len(matches)] ==
            IF n = 0 THEN stats0 ELSE TallyMatch(F[n - 1], matches[n])
    IN  F[Len(matches)]

\* board.sort(key=lambda x: (x["wins"], x["point_diff"]), reverse=True)
BoardBefore(a, b) == ~PairLess(a.wins, a.point_diff, b.wins, b.point_diff)

\* sorted({info["conference"] for info in teams.values()})
Conferences(roster) == SortedStrs({roster[i].val.conference : i \in 1..Len(roster)})

\* conf_name if conf_name in conferences else conferences[0]
SelectedConf(roster, conf_name) ==
    IF \E i \in 1..Len(roster) : roster[i].val.conference = conf_name
    THEN conf_name
    ELSE Conferences(roster)[1]

\* leaderboard_2v2: the board shown for conf_name (StrNone when the URL names
\* no conference), or the IndexError of conferences[0] when there is no team.
leaderboard_2v2(teams, matches, conf_name) ==
    IF teams = <<>> THEN LoadRaised
    ELSE LET selected_conf == SelectedConf(teams, conf_name)
             stats == PairwiseTally(PairwiseInit(teams, selected_conf), matches)
             board == [i \in 1..Len(stats) |->
                         [team_id |-> stats[i].key,
                          team_name |-> DictGet(teams, stats[i].key).team_name,
                          wins |-> stats[i].val.wins,
                          losses |-> stats[i].val.losses,
                          matches_played |-> stats[i].val.matches_played,
                          point_diff |-> stats[i].val.point_diff]]
         IN  Returned([leaderboard |-> StableSort(board, BoardBefore),
                       conferences |-> Conferences(teams),
                       selected_conf |-> selected_conf])

\* leaderboard_1v1: the same over players.
leaderboard_1v1(players, matches, conf_name) ==
    IF players = <<>> THEN LoadRaised
    ELSE LET selected_conf == SelectedConf(players, conf_name)
             stats == PairwiseTally(PairwiseInit(players, selected_conf), matches)
             board == [i \in 1..Len(stats) |->
                         [player_id |-> stats[i].key,
                          player_name |-> DictGet(players, stats[i].key).player_name,
                          wins |-> stats[i].val.wins,
                          losses |-> stats[i].val.losses,
                          matches_played |-> stats[i].val.matches_played,
                          point_diff |-> stats[i].val.point_diff]]
         IN  Returned([leaderboard |-> StableSort(board, BoardBefore),
                       conferences |-> Conferences(players),
                       selected_conf |-> selected_conf])

\* ------------------------------------------------- calculate_team_standings
\* The points of a team are sums of 1.0 and 0.5, floats that are exact; the
\* model holds them in half points: 1.0 is 2, 0.5 is 1, 2.5 is 5.

\* += 1.0 and += 0.5
WinPoints == 2
TiePoints == 1

\* The assignments of every season taken.
AssignmentsOfAnySeason(tas, season) == tas

\* [ta for ta in team_assignments if ta["season"] == season]
SeasonAssignments(tas, season) == SelectSeq(tas, LAMBDA ta : ta.season = season)
\* [ld for ld in league_data if ld["season"] == season]
SeasonLeagueData(data, season) == SelectSeq(data, LAMBDA ld : ld.season = season)

\* player_scores: a dict by event_id of dicts by player_id; a later row of the
\* same player in the same event replaces the earlier score.
PlayerScores(season_league_data) ==
    LET F[n \in 0..Len(season_league_data)] ==
            IF n = 0 THEN <<>>
            ELSE LET ld == season_league_data[n]
                     of_event == IF DictHas(F[n - 1], ld.event_id)
                                 THEN DictGet(F[n - 1], ld.event_id)
                                 ELSE <<>>
                 IN  DictPut(F[n - 1], ld.event_id, DictPut(of_event, ld.player_id, ld.score))
    IN  F[Len(season_league_data)]

\* player_scores.get(event_id, {}).get(player_id)
PlayerScoreOf(player_scores, event_id, player_id) ==
    IF DictHas(player_scores, event_id)
          /\ DictHas(DictGet(player_scores, event_id), Some(player_id))
    THEN Some(DictGet(DictGet(player_scores, event_id), Some(player_id)))
    ELSE NoneV

\* sum(scores)
SumScores(scores) ==
    LET F[n \in 0..Len(scores)] == IF n = 0 THEN 0 ELSE F[n - 1] + scores[n].val
    IN  F[Len(scores)]

\* int(a / n): the float quotient cut to the integer towards zero.
IntOfQuotient(a, n) == IF a >= 0 THEN a \div n ELSE -((-a) \div n)

\* society_averages: for the events that have scores, int(sum(scores) / len(scores)).
SocietyAverages(player_scores) ==
    LET with_scores == SelectSeq(player_scores, LAMBDA e : e.val # <<>>)
    IN  [i \in 1..Len(with_scores) |->
            [key |-> with_scores[i].key,
             val |-> IntOfQuotient(SumScores(with_scores[i].val), Len(with_scores[i].val))]]

\* society_averages.get(event_id, 0)
AvgScoreOf(society_averages, event_id) ==
    IF DictHas(society_averages, event_id) THEN DictGet(society_averages, event_id) ELSE 0

\* The standing a team starts with.
NewStanding(team_name) ==
    [team_name |-> team_name, wins |-> 0, losses |-> 0, ties |-> 0, points |-> 0,
     matches_played |-> 0, team_wins |-> 0, team_losses |-> 0, team_ties |-> 0,
     team_matches_played |-> 0, points_by_event |-> <<>>]

\* f"Team {team_id}": the team ids of the model have one digit.
DefaultTeamName(team_id) == <<"T", "e", "a", "m", " ", DigitChars[team_id + 1]>>

\* Initialize team standings: one entry per team of the season's assignments,
\* in the order of their first assignment.
InitialStandings(teams, season_assignments) ==
    LET F[n \in 0..Len(season_assignments)] ==
            IF n = 0 THEN <<>>
            ELSE LET team_id == season_assignments[n].team_id
                 IN  IF DictHas(F[n - 1], team_id) THEN F[n - 1]
                     ELSE DictPut(F[n - 1], team_id,
                                  NewStanding(IF DictHas(teams, team_id)
                                              THEN DictGet(teams, team_id).team_name
                                              ELSE DefaultTeamName(team_id)))
    IN  F[Len(season_assignments)]

\* if event not in team_standings[team]["points_by_event"]: ...[event] = 0.0
TrackEvent(team_standings, team_id, event) ==
    LET st == DictGet(team_standings, team_id)
    IN  IF DictHas(st.points_by_event, event) THEN team_standings
        ELSE DictPut(team_standings, team_id,
                     [st EXCEPT !.points_by_event = DictPut(@, event, 0)])

\* The updates of one side of a fixture: a win adds 1.0 to points and to the
\* event's points, a tie 0.5, a loss nothing; each adds one match played.
Credit(team_standings, team_id, event, outcome) ==
    LET st == DictGet(team_standings, team_id)
        gained == IF outcome = "win" THEN WinPoints
                  ELSE IF outcome = "tie" THEN TiePoints ELSE 0
    IN  DictPut(team_standings, team_id,
                [st EXCEPT
                   !.wins = IF outcome = "win" THEN @ + 1 ELSE @,
                   !.losses = IF outcome = "loss" THEN @ + 1 ELSE @,
                   !.ties = IF outcome = "tie" THEN @ + 1 ELSE @,
                   !.points = @ + gained,
                   !.points_by_event =
                       IF gained = 0 THEN @
                       ELSE DictPut(@, event, DictGet(@, event) + gained),
                   !.matches_played = @ + 1])

\* assignment["opponent_player_id"] == "Avg"
IsAvg(opponent_player_id) == ~opponent_player_id.isint /\ opponent_player_id.text = AvgStr

\* A player without score given a tie against the average.
AvgOutcomeDnpTies(player1_score, avg_score) ==
    IF player1_score = NoneV THEN "tie"
    ELSE IF player1_score.v < avg_score THEN "win"
    ELSE IF player1_score.v > avg_score THEN "loss"
    ELSE "tie"

\* Against the society average: no score is a loss, a lower score a win, a
\* higher one a loss, the same a tie.
AvgOutcome(player1_score, avg_score) ==
    IF player1_score = NoneV THEN "loss"
    ELSE IF player1_score.v < avg_score THEN "win"
    ELSE IF player1_score.v > avg_score THEN "loss"
    ELSE "tie"

\* The comparison turned round: the higher score wins.
PairOutcomeHigherWins(player1_score, player2_score) ==
    IF player1_score = NoneV /\ player2_score = NoneV THEN "tie"
    ELSE IF player1_score = NoneV THEN "loss"
    ELSE IF player2_score = NoneV THEN "win"
    ELSE IF player1_score.v > player2_score.v THEN "win"
    ELSE IF player1_score.v < player2_score.v THEN "loss"
    ELSE "tie"

\* Against a player, the outcome of player 1.
PairOutcome(player1_score, player2_score) ==
    IF player1_score = NoneV /\ player2_score = NoneV THEN "tie"
    ELSE IF player1_score = NoneV THEN "loss"
    ELSE IF player2_score = NoneV THEN "win"
    ELSE IF player1_score.v < player2_score.v THEN "win"
    ELSE IF player1_score.v > player2_score.v THEN "loss"
    ELSE "tie"

\* What player 2 gets when player 1 gets outcome.
Opposite(outcome) ==
    IF outcome = "win" THEN "loss" ELSE IF outcome = "loss" THEN "win" ELSE "tie"

\* The guard left out: a fixture is processed from both of its assignments.
NeverSkips(player1_id, player2_id) == FALSE

\* if player1_id >= player2_id: continue
SkipsFromLarger(player1_id, player2_id) == player1_id >= player2_id

\* The opponent looked up by event alone, whoever the player.
OpponentsOfEvent(season_assignments, assignment) ==
    SelectSeq(season_assignments,
              LAMBDA ta : /\ ta.event = assignment.event
                          /\ assignment.opponent_player_id.isint)

\* opponent_assignments of an assignment that is not against the average.
OpponentAssignments(season_assignments, assignment) ==
    SelectSeq(season_assignments,
              LAMBDA ta : /\ ta.event = assignment.event
                          /\ assignment.opponent_player_id.isint
                          /\ ta.player_id = assignment.opponent_player_id.id)

\* One turn of the loop over season_assignments.
ProcessAssignment(team_standings, season_assignments, assignment, player_scores, society_averages) ==
    LET team1_id == assignment.team_id
        event == assignment.event
        tracked == TrackEvent(team_standings, team1_id, event)
        opponent_assignments == OpponentAssignments(season_assignments, assignment)
        player1_score == PlayerScoreOf(player_scores, event, assignment.player_id)
    IN  IF IsAvg(assignment.opponent_player_id)
        THEN Credit(tracked, team1_id, event,
                    AvgOutcome(player1_score, AvgScoreOf(society_averages, event)))
        ELSE IF opponent_assignments # <<>>
        THEN LET opponent == opponent_assignments[1]
                 team2_id == opponent.team_id
                 outcome == PairOutcome(player1_score,
                                        PlayerScoreOf(player_scores, event, opponent.player_id))
             IN  IF SkipsFromLarger(assignment.player_id, opponent.player_id) THEN tracked
                 ELSE IF ~DictHas(tracked, team2_id) THEN tracked
                 ELSE Credit(Credit(TrackEvent(tracked, team2_id, event),
                                    team1_id, event, outcome),
                             team2_id, event, Opposite(outcome))
        ELSE tracked

\* for assignment in season_assignments: the standings after the first n turns.
TallyAssignments(team_standings, season_assignments, n, player_scores, society_averages) ==
    LET F[k \in 0..n] ==
            IF k = 0 THEN team_standings
            ELSE ProcessAssignment(F[k - 1], season_assignments, season_assignments[k],
                                   player_scores, society_averages)
    IN  F[n]

\* The threshold of season 2 kept for every season.
WinThresholdOfSeason2(season) == 5

\* win_threshold and tie_threshold, in half points: 2.5 and 2.0 for season 2,
\* 3.0 and 2.5 for every other season.
WinThreshold(season) == IF season = 2 THEN 5 ELSE 6
TieThreshold(season) == IF season = 2 THEN 4 ELSE 5

\* all_events: the keys of every team's points_by_event.
AllEvents(team_standings) ==
    UNION {DictKeys(team_standings[i].val.points_by_event) : i \in 1..Len(team_standings)}

\* stats["points_by_event"].get(event, 0.0)
EventPoints(stats, event) ==
    IF DictHas(stats.points_by_event, event) THEN DictGet(stats.points_by_event, event) ELSE 0

\* The team is in teams_in_event.
TeamInEvent(stats, team_id, event, season_assignments) ==
    \/ EventPoints(stats, event) > 0
    \/ \E i \in 1..Len(season_assignments) :
          season_assignments[i].event = event /\ season_assignments[i].team_id = team_id

\* The credit a team gets for an event from its points there.
TeamCredit(points, season) ==
    IF points >= WinThreshold(season) THEN "win"
    ELSE IF points >= TieThreshold(season) THEN "tie"
    ELSE "loss"

\* Calculate team match records: for every event and every team in it, one
\* team win, tie or loss and one team match played.
TeamMatchRecords(team_standings, season_assignments, season) ==
    [i \in 1..Len(team_standings) |->
        LET stats == team_standings[i].val
            events == {e \in AllEvents(team_standings) :
                          TeamInEvent(stats, team_standings[i].key, e, season_assignments)}
            Credited(c) == Cardinality({e \in events : TeamCredit(EventPoints(stats, e), season) = c})
        IN  [key |-> team_standings[i].key,
             val |-> [stats EXCEPT
                        !.team_wins = @ + Credited("win"),
                        !.team_ties = @ + Credited("tie"),
                        !.team_losses = @ + Credited("loss"),
                        !.team_matches_played = @ + Cardinality(events)]]]

\* sorted(..., key=lambda x: (x[1]["points"], x[1]["wins"]), reverse=True)
StandingBefore(a, b) == ~PairLess(a.val.points, a.val.wins, b.val.points, b.val.wins)

\* calculate_team_standings(season), teams and team_assignments what
\* load_team_data returned and league_data what load_csv_cached returned.
calculate_team_standings(teams, team_assignments, league_data, season) ==
    LET season_assignments == SeasonAssignments(team_assignments, season)
        player_scores == PlayerScores(SeasonLeagueData(league_data, season))
        tallied == TallyAssignments(InitialStandings(teams, season_assignments),
                                    season_assignments, Len(season_assignments),
                                    player_scores, SocietyAverages(player_scores))
    IN  StableSort(TeamMatchRecords(tallied, season_assignments, season), StandingBefore)

\* ------------------------------------------------ the auxiliary files' lines

TeamCsvRow(id, name, conf, p1, p2) ==
    [team_id |-> id, team_name |-> name, conference |-> conf, player1 |-> p1, player2 |-> p2]
MatchCsvRow(id, season, phase, date, w, l, diff) ==
    [match_id |-> id, season |-> season, phase |-> phase, date |-> date,
     winner_id |-> w, loser_id |-> l, point_diff |-> diff]
PlayerCsvRow(id, name, conf) ==
    [player_id |-> id, player_name |-> name, conference |-> conf]

\* 2v2_teams.csv at version v: three teams in two conferences.
Teams2v2Content(v) ==
    << TeamCsvRow(<<"1">>, <<"a", DigitChars[v + 1]>>, <<"A">>, <<"x">>, <<"y">>),
       TeamCsvRow(<<"2">>, <<"b">>, <<"A">>, <<"t">>, <<"v">>),
       TeamCsvRow(<<"3">>, <<"c">>, <<"B">>, <<"e">>, <<"g">>) >>

\* 2v2_matches.csv at version v: two played matches in ascending date order and
\* a fixture without date or result.
Matches2v2Content(v) ==
    << MatchCsvRow(<<"1">>, <<"1">>, <<"S">>, <<"0","1">>, <<"1">>, <<"2">>, <<DigitChars[v + 1]>>),
       MatchCsvRow(<<"2">>, <<"1">>, <<"S">>, <<"0","2">>, <<"2">>, <<"1">>, <<"3">>),
       MatchCsvRow(<<"3">>, <<"1">>, <<"S">>, <<>>, <<"1">>, <<"3">>, <<>>) >>

\* 1v1_players.csv at version v.
Players1v1Content(v) ==
    << PlayerCsvRow(<<"1">>, <<"a", DigitChars[v + 1]>>, <<"A">>),
       PlayerCsvRow(<<"2">>, <<"b">>, <<"A">>),
       PlayerCsvRow(<<"3">>, <<"c">>, <<"B">>) >>

\* 1v1_matches.csv at version v.
Matches1v1Content(v) ==
    << MatchCsvRow(<<"1">>, <<"1">>, <<"S">>, <<"0","1">>, <<"1">>, <<"2">>, <<DigitChars[v + 1]>>),
       MatchCsvRow(<<"2">>, <<"1">>, <<"S">>, <<"0","2">>, <<"3">>, <<"1">>, <<"4">>),
       MatchCsvRow(<<"3">>, <<"1">>, <<"S">>, <<>>, <<"2">>, <<"3">>, <<>>) >>

\* The caches that are filled on first use.
AuxCaches == {"2v2_teams", "2v2_matches", "1v1_players", "1v1_matches"}

\* What the loader of cache c makes of version v of its file.
AuxLoad(c, v) ==
    CASE c = "2v2_teams"   -> Load2v2Teams(Teams2v2Content(v))
      [] c = "2v2_matches" -> Load2v2Matches(Matches2v2Content(v))
      [] c = "1v1_players" -> Load1v1Players(Players1v1Content(v))
      [] c = "1v1_matches" -> Load1v1Matches(Matches1v1Content(v))

\* ------------------------------------------------------------------- state

VARIABLES
    csvExists,      \* league_data.csv is present on disk
    csvMtime,       \* its modification timestamp
    cached_rows,    \* _cached_rows: NoneV or Some(list of rows)
    cached_mtime,   \* _cached_mtime: NoneV or Some(timestamp)
    csv_lock,       \* _csv_lock: 0 when free, else the thread holding it
    pc,             \* per thread: its place in load_csv_cached
    current_mtime,  \* per thread: the local current_mtime
    rows,           \* per thread: the local list rows being built
    f,              \* per thread: the lines of the file it has open
    opened,         \* per thread: this call has opened the file
    ret,            \* per thread: how the call ended
    auxVer,         \* per auxiliary file: its version on disk
    cached_teams,        \* _cached_teams: NoneV or Some(dict)
    cached_matches,      \* _cached_matches: NoneV or Some(list)
    cached_1v1_players,  \* _cached_1v1_players: NoneV or Some(dict)
    cached_1v1_matches,  \* _cached_1v1_matches: NoneV or Some(list)
    apc,            \* per thread: its place in an auxiliary loader
    acache,         \* per thread: the auxiliary loader it is in
    aloaded,        \* per thread: the local teams / ms / players being built
    aret,           \* per thread: what the auxiliary loader returned
    loadKind,       \* the loader applied to a file drawn as input
    loadFile,       \* the lines of that file
    loadMissing,    \* that file is not on disk
    loadOut,        \* NoneV before the loader has run, then Some(its outcome)
    board,          \* NoneV, then Some(the leaderboard built from what was loaded)
    response,       \* what the last request handler answered
    sSeason,        \* calculate_team_standings: the argument season
    sAssignments,   \* team_assignments, as load_team_data returned them
    sLeague,        \* league_data, as load_csv_cached returned it
    sStandings,     \* team_standings
    sCursor,        \* the number of turns the loop over season_assignments has made
    sPhase,         \* the place of the call: idle, start, matches, records, done
    sResult,        \* NoneV, then Some(the sorted standings returned)
    \* calls of head_to_head and of calculate_player_stats on given rows
    h2hData,        \* the rows load_csv_cached gave head_to_head
    h2hForm,        \* request.form: the two names posted
    h2hOut,         \* NoneV, then Some(the summary and the events rendered)
    statsRows,      \* the season_rows given to calculate_player_stats
    statsOut,       \* NoneV, then Some(the leaderboard returned)
    \* calls of leaderboard_2v2 and leaderboard_1v1 on given matches
    pwKind,         \* "2v2" or "1v1": the leaderboard asked for
    pwMatches,      \* the matches its loader returned
    pwConf,         \* conf_name: StrNone or the conference of the URL
    pwOut           \* NoneV, then Some(the board rendered)

csvVars == <<csvExists, csvMtime, cached_rows, cached_mtime, csv_lock,
             pc, current_mtime, rows, f, opened, ret>>

auxCacheVars == <<cached_teams, cached_matches, cached_1v1_players, cached_1v1_matches>>

auxThreadVars == <<apc, acache, aloaded, aret>>

auxVars == <<auxVer, auxCacheVars, auxThreadVars>>

loadVars == <<loadKind, loadFile, loadMissing, loadOut, board>>

queryVars == <<response>>

standVars == <<sSeason, sAssignments, sLeague, sStandings, sCursor, sPhase, sResult>>

callVars == <<h2hData, h2hForm, h2hOut, statsRows, statsOut>>

boardVars == <<pwKind, pwMatches, pwConf, pwOut>>

vars == <<csvVars, auxVars, loadVars, queryVars, standVars, callVars, boardVars>>

\* What load_csv_cached and the main file leave alone.
notCsvVars == <<auxVars, loadVars, queryVars, standVars, callVars, boardVars>>

NoResult == [kind |-> "none", val |-> <<>>]
EmptyResult == [kind |-> "empty", val |-> <<>>]
Raised == [kind |-> "raise", val |-> <<>>]
Rows(x) == [kind |-> "rows", val |-> x]

CsvInit ==
    /\ csvExists = TRUE
    /\ csvMtime = 1
    /\ cached_rows = NoneV
    /\ cached_mtime = NoneV
    /\ csv_lock = 0
    /\ pc = [t \in Threads |-> "idle"]
    /\ current_mtime = [t \in Threads |-> 0]
    /\ rows = [t \in Threads |-> <<>>]
    /\ f = [t \in Threads |-> <<>>]
    /\ opened = [t \in Threads |-> FALSE]
    /\ ret = [t \in Threads |-> NoResult]

\* ------------------------------------------- the file system (environment)

\* league_data.csv is rewritten: new content, a later timestamp.
ModifyFile ==
    /\ csvExists
    /\ csvMtime < MaxMtime
    /\ csvMtime' = csvMtime + 1
    /\ UNCHANGED notCsvVars
    /\ UNCHANGED <<csvExists, cached_rows, cached_mtime, csv_lock,
                   pc, current_mtime, rows, f, opened, ret>>

\* league_data.csv is removed.
DeleteFile ==
    /\ csvExists
    /\ csvExists' = FALSE
    /\ UNCHANGED notCsvVars
    /\ UNCHANGED <<csvMtime, cached_rows, cached_mtime, csv_lock,
                   pc, current_mtime, rows, f, opened, ret>>

\* league_data.csv is put back as it was.
RestoreFile ==
    /\ ~csvExists
    /\ csvExists' = TRUE
    /\ UNCHANGED notCsvVars
    /\ UNCHANGED <<csvMtime, cached_rows, cached_mtime, csv_lock,
                   pc, current_mtime, rows, f, opened, ret>>

\* ------------------------------------------------- load_csv_cached, by step

\* A request thread enters load_csv_cached.
Call(t) ==
    /\ pc[t] = "idle"
    /\ pc' = [pc EXCEPT ![t] = "getmtime"]
    /\ UNCHANGED notCsvVars
    /\ UNCHANGED <<csvExists, csvMtime, cached_rows, cached_mtime, csv_lock,
                   current_mtime, rows, f, opened, ret>>

\* try: current_mtime = os.path.getmtime(CSV_PATH) / except OSError: return []
GetMtime(t) ==
    /\ pc[t] = "getmtime"
    /\ IF csvExists
       THEN /\ current_mtime' = [current_mtime EXCEPT ![t] = csvMtime]
            /\ pc' = [pc EXCEPT ![t] = "acquire"]
            /\ ret' = ret
       ELSE /\ ret' = [ret EXCEPT ![t] = EmptyResult]
            /\ pc' = [pc EXCEPT ![t] = "done"]
            /\ current_mtime' = current_mtime
    /\ UNCHANGED notCsvVars
    /\ UNCHANGED <<csvExists, csvMtime, cached_rows, cached_mtime, csv_lock,
                   rows, f, opened>>

\* A lock that excludes nobody.
LockNeverExcludes == TRUE

\* The lock can be taken.
LockFree == csv_lock = 0

\* with _csv_lock:
AcquireLock(t) ==
    /\ pc[t] = "acquire"
    /\ LockFree
    /\ csv_lock' = t
    /\ pc' = [pc EXCEPT ![t] = "check"]
    /\ UNCHANGED notCsvVars
    /\ UNCHANGED <<csvExists, csvMtime, cached_rows, cached_mtime,
                   current_mtime, rows, f, opened, ret>>

\* A cache that reloads on every call.
ReloadAlways(t) == TRUE

\* _cached_rows is None or current_mtime != _cached_mtime
MustReload(t) == cached_rows = NoneV \/ Some(current_mtime[t]) # cached_mtime

\* if _cached_rows is None or current_mtime != _cached_mtime: rows = []
CheckCache(t) ==
    /\ pc[t] = "check"
    /\ IF MustReload(t)
       THEN /\ rows' = [rows EXCEPT ![t] = <<>>]
            /\ pc' = [pc EXCEPT ![t] = "open"]
       ELSE /\ rows' = rows
            /\ pc' = [pc EXCEPT ![t] = "return"]
    /\ UNCHANGED notCsvVars
    /\ UNCHANGED <<csvExists, csvMtime, cached_rows, cached_mtime, csv_lock,
                   current_mtime, f, opened, ret>>

\* with open(CSV_PATH, ...) as f: a missing file raises FileNotFoundError, which
\* nothing catches; leaving the with block releases the lock.
OpenFile(t) ==
    /\ pc[t] = "open"
    /\ opened' = [opened EXCEPT ![t] = TRUE]
    /\ IF csvExists
       THEN /\ f' = [f EXCEPT ![t] = CSVContent(csvMtime)]
            /\ pc' = [pc EXCEPT ![t] = "read"]
            /\ UNCHANGED <<csv_lock, ret>>
       ELSE /\ ret' = [ret EXCEPT ![t] = Raised]
            /\ csv_lock' = 0
            /\ pc' = [pc EXCEPT ![t] = "done"]
            /\ f' = f
    /\ UNCHANGED notCsvVars
    /\ UNCHANGED <<csvExists, csvMtime, cached_rows, cached_mtime,
                   current_mtime, rows>>

\* for row in reader: ...; rows.append(row)
ReadRow(t) ==
    /\ pc[t] = "read"
    /\ IF Len(rows[t]) < Len(f[t])
       THEN /\ rows' = [rows EXCEPT
                          ![t] = Append(@, NormalizeResultRow(f[t][Len(@) + 1]))]
            /\ pc' = pc
       ELSE /\ rows' = rows
            /\ pc' = [pc EXCEPT ![t] = "store_rows"]
    /\ UNCHANGED notCsvVars
    /\ UNCHANGED <<csvExists, csvMtime, cached_rows, cached_mtime, csv_lock,
                   current_mtime, f, opened, ret>>

\* _cached_rows = rows
StoreRows(t) ==
    /\ pc[t] = "store_rows"
    /\ cached_rows' = Some(rows[t])
    /\ pc' = [pc EXCEPT ![t] = "store_mtime"]
    /\ UNCHANGED notCsvVars
    /\ UNCHANGED <<csvExists, csvMtime, cached_mtime, csv_lock,
                   current_mtime, rows, f, opened, ret>>

\* _cached_mtime = current_mtime
StoreMtime(t) ==
    /\ pc[t] = "store_mtime"
    /\ cached_mtime' = Some(current_mtime[t])
    /\ pc' = [pc EXCEPT ![t] = "return"]
    /\ UNCHANGED notCsvVars
    /\ UNCHANGED <<csvExists, csvMtime, cached_rows, csv_lock,
                   current_mtime, rows, f, opened, ret>>

\* return _cached_rows (and the with block releases the lock)
ReturnCached(t) ==
    /\ pc[t] = "return"
    /\ ret' = [ret EXCEPT ![t] = Rows(cached_rows.v)]
    /\ csv_lock' = 0
    /\ pc' = [pc EXCEPT ![t] = "done"]
    /\ UNCHANGED notCsvVars
    /\ UNCHANGED <<csvExists, csvMtime, cached_rows, cached_mtime,
                   current_mtime, rows, f, opened>>

\* The caller has its result; the thread serves the next request.
Finish(t) ==
    /\ pc[t] = "done"
    /\ pc' = [pc EXCEPT ![t] = "idle"]
    /\ ret' = [ret EXCEPT ![t] = NoResult]
    /\ opened' = [opened EXCEPT ![t] = FALSE]
    /\ rows' = [rows EXCEPT ![t] = <<>>]
    /\ f' = [f EXCEPT ![t] = <<>>]
    /\ current_mtime' = [current_mtime EXCEPT ![t] = 0]
    /\ UNCHANGED notCsvVars
    /\ UNCHANGED <<csvExists, csvMtime, cached_rows, cached_mtime, csv_lock>>

\* ----------------------------------------- the auxiliary loaders, by step

AuxInit ==
    /\ auxVer = [c \in AuxCaches |-> 1]
    /\ cached_teams = NoneV
    /\ cached_matches = NoneV
    /\ cached_1v1_players = NoneV
    /\ cached_1v1_matches = NoneV
    /\ apc = [t \in Threads |-> "idle"]
    /\ acache = [t \in Threads |-> "none"]
    /\ aloaded = [t \in Threads |-> NoneV]
    /\ aret = [t \in Threads |-> NoneV]

\* The global that caches c.
AuxCached(c) ==
    CASE c = "2v2_teams"   -> cached_teams
      [] c = "2v2_matches" -> cached_matches
      [] c = "1v1_players" -> cached_1v1_players
      [] c = "1v1_matches" -> cached_1v1_matches

\* An assignment of x to the global that caches c.
AuxAssign(c, x) ==
    /\ cached_teams' = IF c = "2v2_teams" THEN x ELSE cached_teams
    /\ cached_matches' = IF c = "2v2_matches" THEN x ELSE cached_matches
    /\ cached_1v1_players' = IF c = "1v1_players" THEN x ELSE cached_1v1_players
    /\ cached_1v1_matches' = IF c = "1v1_matches" THEN x ELSE cached_1v1_matches

\* An auxiliary file is rewritten.
ModifyAuxFile(c) ==
    /\ auxVer[c] < MaxAuxVer
    /\ auxVer' = [auxVer EXCEPT ![c] = @ + 1]
    /\ UNCHANGED <<auxCacheVars, auxThreadVars, csvVars, loadVars, queryVars, standVars, callVars, boardVars>>

\* A request thread enters the loader of cache c.
AuxCall(t, c) ==
    /\ apc[t] = "idle"
    /\ apc' = [apc EXCEPT ![t] = "check"]
    /\ acache' = [acache EXCEPT ![t] = c]
    /\ UNCHANGED <<auxVer, auxCacheVars, aloaded, aret, csvVars, loadVars, queryVars, standVars, callVars, boardVars>>

\* The loader reloads: if _cached_teams is None
AuxMustLoad(c) == AuxCached(c) = NoneV

\* if _cached_teams is None:
AuxCheck(t, c) ==
    /\ apc[t] = "check"
    /\ acache[t] = c
    /\ apc' = [apc EXCEPT ![t] = IF AuxMustLoad(c) THEN "load" ELSE "return"]
    /\ UNCHANGED <<auxVer, auxCacheVars, acache, aloaded, aret, csvVars, loadVars, queryVars, standVars, callVars, boardVars>>

\* teams = {}; with open(path, ...) as f: for r in reader: ...
AuxReadFile(t, c) ==
    /\ apc[t] = "load"
    /\ acache[t] = c
    /\ aloaded' = [aloaded EXCEPT ![t] = Some(AuxLoad(c, auxVer[c]).val)]
    /\ apc' = [apc EXCEPT ![t] = "store"]
    /\ UNCHANGED <<auxVer, auxCacheVars, acache, aret, csvVars, loadVars, queryVars, standVars, callVars, boardVars>>

\* _cached_teams = teams
AuxStore(t, c) ==
    /\ apc[t] = "store"
    /\ acache[t] = c
    /\ AuxAssign(c, aloaded[t])
    /\ apc' = [apc EXCEPT ![t] = "return"]
    /\ UNCHANGED <<auxVer, acache, aloaded, aret, csvVars, loadVars, queryVars, standVars, callVars, boardVars>>

\* return _cached_teams
AuxReturn(t, c) ==
    /\ apc[t] = "return"
    /\ acache[t] = c
    /\ aret' = [aret EXCEPT ![t] = AuxCached(c)]
    /\ apc' = [apc EXCEPT ![t] = "done"]
    /\ UNCHANGED <<auxVer, auxCacheVars, acache, aloaded, csvVars, loadVars, queryVars, standVars, callVars, boardVars>>

\* The caller has its result; the thread serves the next request.
AuxFinish(t) ==
    /\ apc[t] = "done"
    /\ apc' = [apc EXCEPT ![t] = "idle"]
    /\ acache' = [acache EXCEPT ![t] = "none"]
    /\ aloaded' = [aloaded EXCEPT ![t] = NoneV]
    /\ aret' = [aret EXCEPT ![t] = NoneV]
    /\ UNCHANGED <<auxVer, auxCacheVars, csvVars, loadVars, queryVars, standVars, callVars, boardVars>>

\* One step of a thread inside the loader of cache c.
AuxLoaderStep(t, c) ==
    \/ AuxCheck(t, c)
    \/ AuxReadFile(t, c)
    \/ AuxStore(t, c)
    \/ AuxReturn(t, c)

load_2v2_teams(t) == AuxLoaderStep(t, "2v2_teams")
load_2v2_matches(t) == AuxLoaderStep(t, "2v2_matches")
load_1v1_players(t) == AuxLoaderStep(t, "1v1_players")
load_1v1_matches(t) == AuxLoaderStep(t, "1v1_matches")

\* ------------------------------------------- the loaders on files as input

\* The characters of a field drawn as input.
InputChars == {"1", "2", " ", "-", "x"}

\* The fields drawn as input: None (the line is short), or a text.
FieldTexts ==
    {StrNone} \cup UNION {[1..n -> InputChars] : n \in 0..MaxFieldLen}

\* Lines of league_data.csv that differ in player_id.
ResultLines ==
    {ResultCsvRow(pid, <<"a">>, <<"e","1">>, <<"0","1">>, <<"7","0">>, <<"1">>,
                  <<"5">>, <<"9","0">>, <<"1">>, <<"P">>) : pid \in FieldTexts}

\* Lines of 2v2_teams.csv that differ in team_id.
TeamLines ==
    {TeamCsvRow(id, <<"a">>, <<"A">>, <<"x">>, <<"y">>) : id \in FieldTexts}

\* Lines of a matches file, team or player 1 beating 2, that differ in point_diff.
MatchLines ==
    {MatchCsvRow(<<"1">>, <<"1">>, <<"S">>, <<"0","1">>, <<"1">>, <<"2">>, diff) :
        diff \in FieldTexts}

\* Lines of 1v1_players.csv that differ in player_id.
PlayerLines ==
    {PlayerCsvRow(id, <<"a">>, <<"A">>) : id \in FieldTexts}

\* Lines of team_data.csv that differ in player_id and in the two opponent fields.
TeamDataLines ==
    {[player_id |-> pid, team_id |-> <<"1">>, team_name |-> <<"a">>,
      event_1v1_opponent |-> opp, team_opponent |-> topp,
      event |-> <<"e","1">>, season |-> <<"2">>] :
        pid \in {StrNone, <<>>, <<"1">>, <<"x">>},
        opp \in {StrNone, <<>>, <<"2">>, AvgStr},
        topp \in {StrNone, <<>>, <<"2">>, SocietyAvgStr}}

Loaders ==
    {"results", "2v2_teams", "2v2_matches", "1v1_players", "1v1_matches", "team_data"}

LinesOf(kind) ==
    CASE kind = "results"     -> ResultLines
      [] kind = "2v2_teams"   -> TeamLines
      [] kind = "2v2_matches" -> MatchLines
      [] kind = "1v1_players" -> PlayerLines
      [] kind = "1v1_matches" -> MatchLines
      [] kind = "team_data"   -> TeamDataLines

\* No loader is being exercised on an input.
LoadIdle ==
    /\ loadKind = "none"
    /\ loadFile = <<>>
    /\ loadMissing = FALSE
    /\ loadOut = NoneV
    /\ board = NoneV

\* A file of two lines is drawn for one of the loaders; it is on disk or not
\* yet.
LoadInit ==
    /\ loadKind \in Loaders
    /\ \E r1, r2 \in LinesOf(loadKind) : loadFile = <<r1, r2>>
    /\ loadMissing \in BOOLEAN
    /\ loadOut = NoneV
    /\ board = NoneV

\* The loader kind reads the file.
RunLoader(kind, outcome) ==
    /\ loadKind = kind
    /\ loadOut = NoneV
    /\ loadOut' = Some(outcome)
    /\ UNCHANGED <<loadKind, loadFile, loadMissing, board, csvVars, auxVars, queryVars, standVars, callVars, boardVars>>

\* load_csv_cached: os.path.getmtime raises OSError for a file that is not
\* there, and the except clause returns [].
LoadResultsFile ==
    RunLoader("results", IF loadMissing THEN Returned(<<>>) ELSE LoadResults(loadFile))

\* The four loaders of the 2v2 and 1v1 files open the file with no try around
\* it: open raises FileNotFoundError out of the loader, the cache stays None.
Load2v2TeamsFile ==
    RunLoader("2v2_teams", IF loadMissing THEN LoadRaised ELSE Load2v2Teams(loadFile))
Load2v2MatchesFile ==
    RunLoader("2v2_matches", IF loadMissing THEN LoadRaised ELSE Load2v2Matches(loadFile))
Load1v1PlayersFile ==
    RunLoader("1v1_players", IF loadMissing THEN LoadRaised ELSE Load1v1Players(loadFile))
Load1v1MatchesFile ==
    RunLoader("1v1_matches", IF loadMissing THEN LoadRaised ELSE Load1v1Matches(loadFile))

\* load_team_data: except (FileNotFoundError, ValueError, KeyError): return {}, []
NoTeamData == [teams |-> <<>>, team_assignments |-> <<>>]
LoadTeamDataFile ==
    RunLoader("team_data", IF loadMissing THEN Returned(NoTeamData) ELSE LoadTeamData(loadFile))

\* The file is put on disk after a call that did not find it; the loader is
\* called again.
FileAppears ==
    /\ loadMissing
    /\ loadOut # NoneV
    /\ loadMissing' = FALSE
    /\ loadOut' = NoneV
    /\ UNCHANGED <<loadKind, loadFile, board, csvVars, auxVars, queryVars, standVars, callVars, boardVars>>

\* The loader has returned a value.
Loaded(kind) == loadKind = kind /\ loadOut # NoneV /\ ~loadOut.v.raises

\* show_leaderboard on the loaded rows: the leaderboard of their season.
BuildLeaderboard ==
    /\ Loaded("results")
    /\ board = NoneV
    /\ board' = Some(calculate_player_stats(loadOut.v.val))
    /\ UNCHANGED <<loadKind, loadFile, loadMissing, loadOut, csvVars, auxVars, queryVars, standVars, callVars, boardVars>>

\* leaderboard_2v2 on the loaded matches, the teams those of 2v2_teams.csv.
Build2v2Leaderboard ==
    /\ Loaded("2v2_matches")
    /\ board = NoneV
    /\ board' = Some(leaderboard_2v2(Load2v2Teams(Teams2v2Content(1)).val,
                                     loadOut.v.val, StrNone).val.leaderboard)
    /\ UNCHANGED <<loadKind, loadFile, loadMissing, loadOut, csvVars, auxVars, queryVars, standVars, callVars, boardVars>>

\* leaderboard_1v1 on the loaded matches, the players those of 1v1_players.csv.
Build1v1Leaderboard ==
    /\ Loaded("1v1_matches")
    /\ board = NoneV
    /\ board' = Some(leaderboard_1v1(Load1v1Players(Players1v1Content(1)).val,
                                     loadOut.v.val, StrNone).val.leaderboard)
    /\ UNCHANGED <<loadKind, loadFile, loadMissing, loadOut, csvVars, auxVars, queryVars, standVars, callVars, boardVars>>

\* ------------------------------------------------------ the request handlers
\* One request at a time, each handler from its first line to its answer. The
\* answer is recorded as the HTTP status, the season the page shows (0 when the
\* page has none) and the number of items the template is given.

MaxSeasonId == 3
MaxEntityId == 4
SeasonIds == 1..MaxSeasonId
EntityIds == 1..MaxEntityId
TierNames == {<<"P">>, <<"C">>}
ConfNames == {StrNone, <<"A">>, <<"B">>}
FormNames == {<<>>, <<"a">>, <<"B">>}

NoResponse == [route |-> "none", status |-> 0, selected_season |-> 0, count |-> 0]

QueryInit == response = NoResponse

\* render_template(...) or abort(...)
Respond(route, status, season, count) ==
    response' = [route |-> route, status |-> status,
                 selected_season |-> season, count |-> count]

\* team_data.csv: team 1 plays seasons 1 and 2, team 2 season 1.
TeamDataRow(pid, tid, name, opp, topp, season) ==
    [player_id |-> pid, team_id |-> tid, team_name |-> name,
     event_1v1_opponent |-> opp, team_opponent |-> topp,
     event |-> <<"e","1">>, season |-> season]
TeamDataContent ==
    << TeamDataRow(<<"1">>, <<"1">>, <<"a">>, <<"2">>, <<"2">>, <<"1">>),
       TeamDataRow(<<"2">>, <<"2">>, <<"b">>, <<"1">>, <<"1">>, <<"1">>),
       TeamDataRow(<<"1">>, <<"1">>, <<"a">>, AvgStr, SocietyAvgStr, <<"2">>) >>

\* load_csv_cached with no other request running: it reloads when the file is
\* there and the cache is empty or of another timestamp.
CsvReloads == csvExists /\ (cached_rows = NoneV \/ cached_mtime # Some(csvMtime))

\* What that call returns.
CsvData ==
    IF ~csvExists THEN <<>>
    ELSE IF CsvReloads THEN LoadResultRows(CSVContent(csvMtime))
    ELSE cached_rows.v

\* What that call leaves in the globals.
LoadCsvCached ==
    /\ cached_rows' = IF CsvReloads THEN Some(CsvData) ELSE cached_rows
    /\ cached_mtime' = IF CsvReloads THEN Some(csvMtime) ELSE cached_mtime
    /\ UNCHANGED <<csvExists, csvMtime, csv_lock, pc, current_mtime, rows, f, opened, ret>>

\* An auxiliary loader with no other request running: what it returns.
AuxData(c) == IF AuxCached(c) = NoneV THEN AuxLoad(c, auxVer[c]).val ELSE AuxCached(c).v

\* {r["season"] for r in data}
SeasonsOf(data) == {data[i].season : i \in 1..Len(data)}
\* {r["tier"] for r in data if r["season"] == season}
TiersOf(data, season) == {data[i].tier : i \in {j \in 1..Len(data) : data[j].season = season}}
\* sorted(...)[-1]
Latest(S) == CHOOSE x \in S : \A y \in S : y <= x
\* [r for r in data if r["season"] == season]
SeasonRows(data, season) == SelectSeq(data, LAMBDA r : r.season = season)
\* [r for r in data if r["season"] == season and r["tier"] == tier]
TierRows(data, season, tier) == SelectSeq(data, LAMBDA r : r.season = season /\ r.tier = tier)

\* /leaderboard and /leaderboard/season/<season_id>: season_id is NoneV for the
\* first URL.
show_leaderboard(season_id) ==
    LET data == CsvData
        seasons == SeasonsOf(data)
    IN  /\ LoadCsvCached
        /\ IF seasons = {}
           THEN Respond("show_leaderboard", 404, 0, 0)
           ELSE LET selected_season ==
                        IF season_id # NoneV /\ season_id.v \in seasons
                        THEN season_id.v
                        ELSE Latest(seasons)
                    leaderboard == calculate_player_stats(SeasonRows(data, selected_season))
                IN  Respond("show_leaderboard", 200, selected_season, Len(leaderboard))
        /\ UNCHANGED <<auxVars, loadVars, standVars, callVars, boardVars>>

\* /leaderboard/season/<season_id>/tier/<tier_name>
show_leaderboard_tier(season_id, tier_name) ==
    LET data == CsvData
    IN  /\ LoadCsvCached
        /\ IF season_id \notin SeasonsOf(data)
           THEN Respond("show_leaderboard_tier", 404, 0, 0)
           ELSE IF tier_name \notin TiersOf(data, season_id)
           THEN Respond("show_leaderboard_tier", 404, 0, 0)
           ELSE Respond("show_leaderboard_tier", 200, season_id,
                        Len(calculate_player_stats(TierRows(data, season_id, tier_name))))
        /\ UNCHANGED <<auxVars, loadVars, standVars, callVars, boardVars>>

\* /society/season/<season_id>: the count is that of tiers_present.
society_season_overview(season_id) ==
    LET data == CsvData
    IN  /\ LoadCsvCached
        /\ Respond("society_season_overview", 200, season_id,
                   Cardinality(TiersOf(data, season_id)))
        /\ UNCHANGED <<auxVars, loadVars, standVars, callVars, boardVars>>

\* /society/season/<season_id>/tier/<tier_name>: one summary per event.
society_tier_page(season_id, tier_name) ==
    LET data == CsvData
        filtered == TierRows(data, season_id, tier_name)
        event_ids == {filtered[i].event_id : i \in 1..Len(filtered)}
    IN  /\ LoadCsvCached
        /\ Respond("society_tier_page", 200, season_id, Cardinality(event_ids))
        /\ UNCHANGED <<auxVars, loadVars, standVars, callVars, boardVars>>

\* /teams/standings/season/<season_id>: calculate_team_standings, which runs
\* only for a season that passed both checks, calls load_csv_cached; it answers
\* one standing per team assigned in the season.
show_teams_overview(season_id) ==
    LET loaded == LoadTeamData(TeamDataContent)
        tas == loaded.val.team_assignments
        seasons == SeasonsOf(tas)
        standing_teams == {tas[i].team_id : i \in {j \in 1..Len(tas) : tas[j].season = season_id}}
    IN  /\ IF loaded.raises
           THEN Respond("show_teams_overview", 500, 0, 0) /\ UNCHANGED csvVars
           ELSE IF seasons = {} \/ season_id \notin seasons
           THEN Respond("show_teams_overview", 404, 0, 0) /\ UNCHANGED csvVars
           ELSE Respond("show_teams_overview", 200, season_id, Cardinality(standing_teams))
                /\ LoadCsvCached
        /\ UNCHANGED <<auxVars, loadVars, standVars, callVars, boardVars>>

\* /teams/team/<team_id>/season/<season_id>: the count is that of the roster.
team_detail(team_id, season_id) ==
    LET loaded == LoadTeamData(TeamDataContent)
        tas == loaded.val.team_assignments
        team_seasons == {tas[i].season : i \in {j \in 1..Len(tas) : tas[j].team_id = team_id}}
        roster_player_ids ==
            {tas[i].player_id :
                i \in {j \in 1..Len(tas) : tas[j].team_id = team_id /\ tas[j].season = season_id}}
    IN  /\ IF loaded.raises
           THEN Respond("team_detail", 500, 0, 0) /\ UNCHANGED csvVars
           ELSE /\ LoadCsvCached
                /\ IF ~DictHas(loaded.val.teams, team_id)
                   THEN Respond("team_detail", 404, 0, 0)
                   ELSE IF team_seasons = {} \/ season_id \notin team_seasons
                   THEN Respond("team_detail", 404, 0, 0)
                   ELSE Respond("team_detail", 200, season_id, Cardinality(roster_player_ids))
        /\ UNCHANGED <<auxVars, loadVars, standVars, callVars, boardVars>>

LowerChar(c) ==
    CASE c = "A" -> "a" [] c = "B" -> "b" [] c = "C" -> "c"
      [] c = "P" -> "p" [] c = "S" -> "s" [] OTHER -> c
\* str.lower()
lower(s) == [i \in 1..Len(s) |-> LowerChar(s[i])]

\* f"{n}" of an int.
RECURSIVE NatText(_)
NatText(n) ==
    IF n < 10 THEN <<DigitChars[n + 1]>>
    ELSE NatText(n \div 10) \o <<DigitChars[(n % 10) + 1]>>
IntText(n) == IF n < 0 THEN <<"-">> \o NatText(0 - n) ELSE NatText(n)

\* event_key = f"{r['season']}-{r['event_id']}"
EventKey(r) == IntText(r.season) \o <<"-">> \o r.event_id

\* head_to_head, first loop: player1_events and player2_events, dicts by event
\* key of the rows whose lowered name is the first name, and else-if the
\* second; a later row of the same key replaces the earlier one.
PlayerEvents(data, player1_name, player2_name) ==
    LET F[n \in 0..Len(data)] ==
            IF n = 0 THEN [player1_events |-> <<>>, player2_events |-> <<>>]
            ELSE LET r == data[n]
                     player_name == lower(safe_string(r.player_name))
                 IN  IF player_name = lower(player1_name)
                     THEN [F[n - 1] EXCEPT !.player1_events = DictPut(@, EventKey(r), r)]
                     ELSE IF player_name = lower(player2_name)
                     THEN [F[n - 1] EXCEPT !.player2_events = DictPut(@, EventKey(r), r)]
                     ELSE F[n - 1]
    IN  F[Len(data)]

TieText == <<"T", "i", "e">>

\* One entry of common_events; the score of a row is an int already, which
\* safe_int gives back.
CommonEvent(event_key, p1_data, p2_data, player1_name, player2_name) ==
    [event_key     |-> event_key,
     season        |-> p1_data.season,
     event_id      |-> p1_data.event_id,
     event_date    |-> p1_data.event_date,
     player1_score |-> p1_data.score,
     player2_score |-> p2_data.score,
     winner        |-> IF p1_data.score < p2_data.score THEN player1_name
                       ELSE IF p2_data.score < p1_data.score THEN player2_name
                       ELSE TieText]

\* common_events.sort(key=lambda x: (x["season"], x["event_date"]))
CommonEventBefore(a, b) ==
    ~(b.season < a.season \/ (b.season = a.season /\ StrLess(b.event_date, a.event_date)))

\* head_to_head, POST with two names: the second loop, over player1_events,
\* the sort and the summary.
HeadToHeadSummary(data, player1_name, player2_name) ==
    LET both == PlayerEvents(data, player1_name, player2_name)
        player1_events == both.player1_events
        player2_events == both.player2_events
        F[n \in 0..Len(player1_events)] ==
            IF n = 0
            THEN [common_events |-> <<>>, player1_wins |-> 0, player2_wins |-> 0, ties |-> 0]
            ELSE LET event_key == player1_events[n].key
                     p1_data == player1_events[n].val
                     p2_data == DictGet(player2_events, event_key)
                 IN  IF ~DictHas(player2_events, event_key) THEN F[n - 1]
                     ELSE [common_events |->
                               Append(F[n - 1].common_events,
                                      CommonEvent(event_key, p1_data, p2_data,
                                                  player1_name, player2_name)),
                           player1_wins |->
                               IF p1_data.score < p2_data.score
                               THEN F[n - 1].player1_wins + 1 ELSE F[n - 1].player1_wins,
                           player2_wins |->
                               IF ~(p1_data.score < p2_data.score)
                                  /\ p2_data.score < p1_data.score
                               THEN F[n - 1].player2_wins + 1 ELSE F[n - 1].player2_wins,
                           ties |->
                               IF p1_data.score = p2_data.score
                               THEN F[n - 1].ties + 1 ELSE F[n - 1].ties]
        done == F[Len(player1_events)]
    IN  [total_events |-> Len(done.common_events),
         player1_wins |-> done.player1_wins,
         player2_wins |-> done.player2_wins,
         ties         |-> done.ties,
         common_events |-> StableSort(done.common_events, CommonEventBefore)]

\* /head-to-head: GET shows the form with all_players (the count); POST with
\* the two names of the form counts the events both played.
head_to_head(method, player1, player2) ==
    LET data == CsvData
        all_players ==
            {safe_string(data[i].player_name) :
                i \in {j \in 1..Len(data) : data[j].player_name # <<>>}}
        player1_name == strip(player1)
        player2_name == strip(player2)
    IN  /\ LoadCsvCached
        /\ IF method = "GET"
           THEN Respond("head_to_head", 200, 0, Cardinality(all_players))
           ELSE IF player1_name = <<>> \/ player2_name = <<>>
           THEN Respond("head_to_head", 200, 0, 0)
           ELSE Respond("head_to_head", 200, 0,
                        HeadToHeadSummary(data, player1_name, player2_name).total_events)
        /\ UNCHANGED <<auxVars, loadVars, standVars, callVars, boardVars>>

\* What the auxiliary loaders and the handlers below leave alone.
AuxFrame == UNCHANGED <<auxVer, auxThreadVars>>

\* key=lambda m: m["date"] or ""
DateKey(m) == IF m.date = StrNone THEN <<>> ELSE m.date
\* sort(key=lambda m: m["date"] or "", reverse=True)
DateDescBefore(a, b) == ~StrLess(DateKey(a), DateKey(b))

\* /2v2/leaderboard and /2v2/leaderboard/<conf_name>
leaderboard_2v2_page(conf_name) ==
    LET teams == AuxData("2v2_teams")
        matches == AuxData("2v2_matches")
        out == leaderboard_2v2(teams, matches, conf_name)
    IN  /\ cached_teams' = Some(teams)
        /\ cached_matches' = Some(matches)
        /\ UNCHANGED <<cached_1v1_players, cached_1v1_matches>>
        /\ AuxFrame
        /\ IF out.raises
           THEN Respond("leaderboard_2v2", 500, 0, 0)
           ELSE Respond("leaderboard_2v2", 200, 0, Len(out.val.leaderboard))
        /\ UNCHANGED <<csvVars, loadVars, standVars, callVars, boardVars>>

\* /2v2/results: raw_matches is the cached list itself, and raw_matches.sort
\* sorts it in place; the fixtures shown are copies (m.copy()).
results_2v2 ==
    LET teams == AuxData("2v2_teams")
        raw_matches == StableSort(AuxData("2v2_matches"), DateDescBefore)
        shown == SelectSeq(raw_matches,
                           LAMBDA m : DictHas(teams, m.winner_id) /\ DictHas(teams, m.loser_id))
    IN  /\ cached_teams' = Some(teams)
        /\ cached_matches' = Some(raw_matches)
        /\ UNCHANGED <<cached_1v1_players, cached_1v1_matches>>
        /\ AuxFrame
        /\ Respond("results_2v2", 200, 0, Len(shown))
        /\ UNCHANGED <<csvVars, loadVars, standVars, callVars, boardVars>>

\* team_page_2v2: m is a dict of the cached list, and the two assignments
\* m["winner_name"] = ..., m["loser_name"] = ... add or overwrite its keys.
NamedMatch(teams, m) ==
    [winner_name |-> DictGet(teams, m.winner_id).team_name,
     loser_name  |-> DictGet(teams, m.loser_id).team_name] @@ m

\* /2v2/team/<team_id>: matches.sort(key=lambda x: x["date"]) compares the
\* dates themselves, and a comparison with None raises TypeError.
team_page_2v2(team_id) ==
    LET teams == AuxData("2v2_teams")
        all_matches == AuxData("2v2_matches")
        Shown(m) ==
            /\ m.winner_id = team_id \/ m.loser_id = team_id
            /\ DictHas(teams, m.winner_id) /\ DictHas(teams, m.loser_id)
        named == [i \in 1..Len(all_matches) |->
                     IF Shown(all_matches[i]) THEN NamedMatch(teams, all_matches[i])
                     ELSE all_matches[i]]
        matches == SelectSeq(named, Shown)
        sort_raises == Len(matches) >= 2 /\ \E i \in 1..Len(matches) : matches[i].date = StrNone
    IN  /\ cached_teams' = Some(teams)
        /\ UNCHANGED <<cached_1v1_players, cached_1v1_matches>>
        /\ AuxFrame
        /\ IF ~DictHas(teams, team_id)
           THEN Respond("team_page_2v2", 404, 0, 0) /\ UNCHANGED cached_matches
           ELSE /\ cached_matches' = Some(named)
                /\ IF sort_raises
                   THEN Respond("team_page_2v2", 500, 0, 0)
                   ELSE Respond("team_page_2v2", 200, 0, Len(matches))
        /\ UNCHANGED <<csvVars, loadVars, standVars, callVars, boardVars>>

\* /1v1/leaderboard and /1v1/leaderboard/<conf_name>
leaderboard_1v1_page(conf_name) ==
    LET players == AuxData("1v1_players")
        matches == AuxData("1v1_matches")
        out == leaderboard_1v1(players, matches, conf_name)
    IN  /\ cached_1v1_players' = Some(players)
        /\ cached_1v1_matches' = Some(matches)
        /\ UNCHANGED <<cached_teams, cached_matches>>
        /\ AuxFrame
        /\ IF out.raises
           THEN Respond("leaderboard_1v1", 500, 0, 0)
           ELSE Respond("leaderboard_1v1", 200, 0, Len(out.val.leaderboard))
        /\ UNCHANGED <<csvVars, loadVars, standVars, callVars, boardVars>>

\* /1v1/results: the cached list is sorted in place; players[m["loser_id"]]
\* raises KeyError for a loser that is no player.
results_1v1 ==
    LET players == AuxData("1v1_players")
        raw_matches == StableSort(AuxData("1v1_matches"), DateDescBefore)
        shown == SelectSeq(raw_matches, LAMBDA m : DictHas(players, m.winner_id))
    IN  /\ cached_1v1_players' = Some(players)
        /\ cached_1v1_matches' = Some(raw_matches)
        /\ UNCHANGED <<cached_teams, cached_matches>>
        /\ AuxFrame
        /\ IF \E i \in 1..Len(shown) : ~DictHas(players, shown[i].loser_id)
           THEN Respond("results_1v1", 500, 0, 0)
           ELSE Respond("results_1v1", 200, 0, Len(shown))
        /\ UNCHANGED <<csvVars, loadVars, standVars, callVars, boardVars>>

\* /1v1/player/<pid>: the matches shown are copies (m.copy()); pls[...] raises
\* KeyError for a winner or loser that is no player.
player_page_1v1(pid) ==
    LET players == AuxData("1v1_players")
        all_matches == AuxData("1v1_matches")
        matches == SelectSeq(all_matches, LAMBDA m : m.winner_id = pid \/ m.loser_id = pid)
    IN  /\ cached_1v1_players' = Some(players)
        /\ UNCHANGED <<cached_teams, cached_matches>>
        /\ AuxFrame
        /\ IF ~DictHas(players, pid)
           THEN Respond("player_page_1v1", 404, 0, 0) /\ UNCHANGED cached_1v1_matches
           ELSE /\ cached_1v1_matches' = Some(all_matches)
                /\ IF \E i \in 1..Len(matches) :
                          \/ ~DictHas(players, matches[i].winner_id)
                          \/ ~DictHas(players, matches[i].loser_id)
                   THEN Respond("player_page_1v1", 500, 0, 0)
                   ELSE Respond("player_page_1v1", 200, 0, Len(matches))
        /\ UNCHANGED <<csvVars, loadVars, standVars, callVars, boardVars>>

\* team_detail, lines 1231-1233: the society average of an event over every
\* row of league_data of that event, whatever its season; NoneV when the event
\* has no row.
TeamDetailSocietyAvg(league_data, event) ==
    LET event_scores == SelectSeq(league_data, LAMBDA ld : ld.event_id = event)
        total == LET F[n \in 0..Len(event_scores)] ==
                         IF n = 0 THEN 0 ELSE F[n - 1] + event_scores[n].score
                 IN  F[Len(event_scores)]
    IN  IF event_scores = <<>> THEN NoneV
        ELSE Some(IntOfQuotient(total, Len(event_scores)))

\* team_detail, lines 1211-1224: the score of the first row of league_data,
\* of whatever season, with this player_id and event_id; NoneV when there is
\* no such row.
TeamDetailScore(league_data, pid, event) ==
    LET found == SelectSeq(league_data,
                           LAMBDA ld : ld.player_id = Some(pid) /\ ld.event_id = event)
    IN  IF found = <<>> THEN NoneV ELSE Some(found[1].score)

\* team_detail, lines 1226-1267: the result of one assignment of the roster.
TeamDetailResult(league_data, assignment) ==
    LET opponent == assignment.opponent_player_id
        vs_avg == ~opponent.isint /\ opponent.text = AvgStr
        player_score == TeamDetailScore(league_data, assignment.player_id, assignment.event)
        opponent_score == IF opponent.isint
                          THEN TeamDetailScore(league_data, opponent.id, assignment.event)
                          ELSE NoneV
        society_avg == TeamDetailSocietyAvg(league_data, assignment.event)
    IN  IF player_score # NoneV
        THEN IF vs_avg
             THEN IF society_avg = NoneV THEN "vs Society Avg"
                  ELSE IF player_score.v < society_avg.v THEN "Win"
                  ELSE IF player_score.v > society_avg.v THEN "Loss"
                  ELSE "Tie"
             ELSE IF opponent_score # NoneV
             THEN IF player_score.v < opponent_score.v THEN "Win"
                  ELSE IF player_score.v > opponent_score.v THEN "Loss"
                  ELSE "Tie"
             ELSE "Win"
        ELSE IF vs_avg THEN "Loss"
             ELSE IF opponent_score # NoneV THEN "Loss"
             ELSE "DNP"

\* team_detail, lines 1173 and 1187-1278: the match history, one entry per
\* assignment of the team in the season, in the order of the rows.
TeamDetailMatches(team_id, season_id, team_assignments, league_data) ==
    LET roster_assignments ==
            SelectSeq(team_assignments,
                      LAMBDA ta : ta.team_id = team_id /\ ta.season = season_id)
    IN  [i \in 1..Len(roster_assignments) |->
            [event |-> roster_assignments[i].event,
             player_id |-> roster_assignments[i].player_id,
             result |-> TeamDetailResult(league_data, roster_assignments[i])]]

\* ------------------------------------------- calculate_team_standings, run
\* One call of calculate_team_standings(season) on what the two loaders
\* returned, a turn of its loop at a time.

MaxPlayerId == 2
MaxTeamId == 2
PlayerIds == 1..MaxPlayerId
TeamIds == 1..MaxTeamId
EventIds == {<<"e", "1">>, <<"e", "2">>}
StandingSeasons == {2, 3}

\* The text of a number of one digit.
DigitText(n) == <<DigitChars[n + 1]>>

\* A line of team_data.csv: player pid of team tid plays, in event, opponent
\* opp, or the society average when opp is 0.
TeamDataLine(pid, tid, opp, event, season) ==
    [player_id |-> DigitText(pid), team_id |-> DigitText(tid),
     team_name |-> <<Alphabet[CharCode("a") + tid - 1]>>,
     event_1v1_opponent |-> IF opp = 0 THEN <<>> ELSE DigitText(opp),
     team_opponent |-> IF opp = 0 THEN SocietyAvgStr ELSE DigitText(1),
     event |-> event, season |-> DigitText(season)]

\* The assignments load_team_data makes of such lines.
AssignmentsIn(events, teams, seasons) ==
    {TeamAssignment(TeamDataLine(pid, tid, opp, event, season)) :
        pid \in PlayerIds, tid \in teams, opp \in 0..MaxPlayerId,
        event \in events, season \in seasons}

\* The scores drawn for a player in event e1: none (the player has no row), 3
\* under par, 2 under, 2 over.
ScoreTexts == {<<>>, <<"-", "3">>, <<"-", "2">>, <<"2">>}

\* The rows load_csv_cached returns: a row of season 1, then the rows of
\* players 1 and 2 in event e1 of the season.
LeagueRowsOf(score1, score2, season) ==
    LET Line(pid, name, score, s) ==
            ResultCsvRow(DigitText(pid), name, <<"e", "1">>, <<"0", "1">>, score,
                         <<"1">>, <<"5">>, <<"9", "0">>, DigitText(s), <<"P">>)
    IN  LoadResultRows(
            <<Line(1, <<"a">>, <<"0">>, 1)>>
            \o (IF score1 = <<>> THEN <<>> ELSE <<Line(1, <<"a">>, score1, season)>>)
            \o (IF score2 = <<>> THEN <<>> ELSE <<Line(2, <<"b">>, score2, season)>>))

\* No call of calculate_team_standings is under way.
StandIdle ==
    /\ sSeason = 0
    /\ sAssignments = <<>>
    /\ sLeague = <<>>
    /\ sStandings = <<>>
    /\ sCursor = 0
    /\ sPhase = "idle"
    /\ sResult = NoneV

\* calculate_team_standings is called for season 2 or 3, team_data.csv holding
\* two or three assignments and league_data.csv the scores of event e1.
StandInit ==
    /\ sSeason \in StandingSeasons
    /\ \E r1 \in AssignmentsIn(EventIds, TeamIds, {sSeason})
                    \cup AssignmentsIn({<<"e", "1">>}, {1}, StandingSeasons \ {sSeason}),
          r2 \in AssignmentsIn({<<"e", "1">>}, TeamIds, {sSeason}),
          r3 \in AssignmentsIn({<<"e", "1">>}, {1}, {sSeason}) :
            sAssignments \in {<<r1, r2>>, <<r1, r2, r3>>}
    /\ \E score1, score2 \in ScoreTexts : sLeague = LeagueRowsOf(score1, score2, sSeason)
    /\ sStandings = <<>>
    /\ sCursor = 0
    /\ sPhase = "start"
    /\ sResult = NoneV

\* The locals of the call.
season_assignments == SeasonAssignments(sAssignments, sSeason)
player_scores == PlayerScores(SeasonLeagueData(sLeague, sSeason))
society_averages == SocietyAverages(player_scores)

\* Lines 918-960: the loaders are called, the scores and averages are
\* looked up, team_standings is initialised.
BeginStandings ==
    /\ sPhase = "start"
    /\ sStandings' = InitialStandings(TeamsOfAssignments(sAssignments), season_assignments)
    /\ sPhase' = "matches"
    /\ UNCHANGED <<sSeason, sAssignments, sLeague, sCursor, sResult>>
    /\ UNCHANGED <<csvVars, auxVars, loadVars, queryVars, callVars, boardVars>>

\* Lines 965-1077: one turn of for assignment in season_assignments.
StandingsTurn ==
    /\ sPhase = "matches"
    /\ sCursor < Len(season_assignments)
    /\ sStandings' = ProcessAssignment(sStandings, season_assignments,
                                       season_assignments[sCursor + 1],
                                       player_scores, society_averages)
    /\ sCursor' = sCursor + 1
    /\ UNCHANGED <<sSeason, sAssignments, sLeague, sPhase, sResult>>
    /\ UNCHANGED <<csvVars, auxVars, loadVars, queryVars, callVars, boardVars>>

\* Lines 1079-1113: the team match records, after the last turn.
StandingsTeamRecords ==
    /\ sPhase = "matches"
    /\ sCursor = Len(season_assignments)
    /\ sStandings' = TeamMatchRecords(sStandings, season_assignments, sSeason)
    /\ sPhase' = "records"
    /\ UNCHANGED <<sSeason, sAssignments, sLeague, sCursor, sResult>>
    /\ UNCHANGED <<csvVars, auxVars, loadVars, queryVars, callVars, boardVars>>

\* Lines 1115-1122: return sorted_standings
StandingsReturn ==
    /\ sPhase = "records"
    /\ sResult' = Some(StableSort(sStandings, StandingBefore))
    /\ sPhase' = "done"
    /\ UNCHANGED <<sSeason, sAssignments, sLeague, sStandings, sCursor>>
    /\ UNCHANGED <<csvVars, auxVars, loadVars, queryVars, callVars, boardVars>>

\* ------------------------------------------- head_to_head on given rows

\* The names and scores of the rows given to head_to_head, and the names posted.
ComparedNames == {<<"a">>, <<"b">>}
ComparedScores == {<<"6","8">>, <<"7","0">>}
PostedNames == {<<>>, <<"a">>, <<"b">>, <<"B", " ">>}

\* Lines of league_data.csv of players a and b, in events e1 and e2 of seasons
\* 1 and 2; the date of an event follows from its key.
ComparedLines ==
    {ResultCsvRow(IF name = <<"a">> THEN <<"1">> ELSE <<"2">>, name, ev,
                  <<"0">> \o season \o <<ev[2]>>, score,
                  <<"1">>, <<"5">>, <<"8","0">>, season, <<"P">>) :
        name \in ComparedNames, ev \in EventIds,
        season \in {<<"1">>, <<"2">>}, score \in ComparedScores}

MaxComparedRows == 3

NoSummary ==
    [total_events |-> 0, player1_wins |-> 0, player2_wins |-> 0, ties |-> 0,
     common_events |-> <<>>]

CallIdle ==
    /\ h2hData = <<>>
    /\ h2hForm = [player1 |-> <<>>, player2 |-> <<>>]
    /\ h2hOut = NoneV
    /\ statsRows = <<>>
    /\ statsOut = NoneV

\* load_csv_cached has given head_to_head the rows of three lines.
CompareInit ==
    /\ h2hData \in {LoadResultRows(lines) : lines \in [1..MaxComparedRows -> ComparedLines]}
    /\ h2hForm = [player1 |-> <<>>, player2 |-> <<>>]
    /\ h2hOut = NoneV
    /\ statsRows = <<>>
    /\ statsOut = NoneV

\* POST /head-to-head with the two names of the form.
HeadToHeadPost(player1, player2) ==
    LET player1_name == strip(player1)
        player2_name == strip(player2)
    IN  /\ h2hForm' = [player1 |-> player1, player2 |-> player2]
        /\ h2hOut' = IF player1_name = <<>> \/ player2_name = <<>>
                     THEN Some([error |-> TRUE, summary |-> NoSummary])
                     ELSE Some([error |-> FALSE,
                                summary |-> HeadToHeadSummary(h2hData, player1_name,
                                                              player2_name)])
        /\ UNCHANGED <<h2hData, statsRows, statsOut>>
        /\ UNCHANGED <<csvVars, auxVars, loadVars, queryVars, standVars, boardVars>>

\* GET /head-to-head: the form alone.
HeadToHeadGet ==
    /\ h2hForm' = [player1 |-> <<>>, player2 |-> <<>>]
    /\ h2hOut' = NoneV
    /\ h2hOut # NoneV
    /\ UNCHANGED <<h2hData, statsRows, statsOut>>
    /\ UNCHANGED <<csvVars, auxVars, loadVars, queryVars, standVars, boardVars>>

\* ---------------------------------- calculate_player_stats on given rows

\* The player_id of a row given to calculate_player_stats: an int or None.
StatsPlayerIds == {NoneV, Some(0), Some(1), Some(2)}

\* The rank, points and event_pr of the rows drawn.
StatsRowFields ==
    {<<<<"1">>, <<"1","0">>, <<"9","0">>>>,
     <<<<"2">>, <<"7">>, <<"8","5">>>>,
     <<<<"3">>, <<"5">>, <<"8","0">>>>,
     <<<<"4">>, <<"5">>, <<"8","4">>>>,
     <<<<"1">>, <<"1","0">>, <<"8","6">>>>}

\* A row of season 1 with the player_id and the rank, points and event_pr given.
StatsRow(pid, fields) ==
    [NormalizeResultRow(
         ResultCsvRow(<<"1">>, <<"a">>, <<"e","1">>, <<"0","1">>, <<"7","0">>,
                      fields[1], fields[2], fields[3], <<"1">>, <<"P">>))
       EXCEPT !.player_id = pid]

\* The rows of a season with the player_id given.
StatsRowsOf(pid) == {StatsRow(pid, fields) : fields \in StatsRowFields}

MaxStatsRows == 3

\* calculate_player_stats is about to be called on up to three rows.
StatsInit ==
    /\ h2hData = <<>>
    /\ h2hForm = [player1 |-> <<>>, player2 |-> <<>>]
    /\ h2hOut = NoneV
    /\ \E n \in 0..MaxStatsRows :
          statsRows \in [1..n -> UNION {StatsRowsOf(pid) : pid \in StatsPlayerIds}]
    /\ statsOut = NoneV

\* leaderboard = calculate_player_stats(season_rows)
CallPlayerStats ==
    /\ statsOut = NoneV
    /\ statsOut' = Some(calculate_player_stats(statsRows))
    /\ UNCHANGED <<h2hData, h2hForm, h2hOut, statsRows>>
    /\ UNCHANGED <<csvVars, auxVars, loadVars, queryVars, standVars, boardVars>>

\* ------------------------------- the pairwise leaderboards on given matches

\* The matches drawn: team or player 1 or 3 beating 1, 2 or 3, with no
\* point_diff, 3 points or 2 points the other way.
BoardMatchLines ==
    {MatchCsvRow(<<"1">>, <<"1">>, <<"S">>, <<"0","1">>, w, l, diff) :
        w \in {<<"1">>, <<"3">>}, l \in {<<"1">>, <<"2">>, <<"3">>},
        diff \in {<<>>, <<"3">>, <<"-","2">>}}

MaxBoardMatches == 2

BoardIdle ==
    /\ pwKind = "none"
    /\ pwMatches = <<>>
    /\ pwConf = StrNone
    /\ pwOut = NoneV

\* A leaderboard is asked for, with or without a conference in the URL; the
\* loader of the matches returns up to two matches.
BoardInit ==
    /\ pwKind \in {"2v2", "1v1"}
    /\ \E n \in 0..MaxBoardMatches :
          pwMatches \in {[i \in 1..n |-> MatchRecord(lines[i])] :
                            lines \in [1..n -> BoardMatchLines]}
    /\ pwConf \in ConfNames
    /\ pwOut = NoneV

\* The teams and the players the loaders return: 1 and 2 in conference A, 3 in B.
BoardTeams == Load2v2Teams(Teams2v2Content(1)).val
BoardPlayers == Load1v1Players(Players1v1Content(1)).val

\* leaderboard_2v2(conf_name)
Leaderboard2v2Call ==
    /\ pwKind = "2v2"
    /\ pwOut = NoneV
    /\ pwOut' = Some(leaderboard_2v2(BoardTeams, pwMatches, pwConf).val)
    /\ UNCHANGED <<pwKind, pwMatches, pwConf>>
    /\ UNCHANGED <<csvVars, auxVars, loadVars, queryVars, standVars, callVars>>

\* leaderboard_1v1(conf_name)
Leaderboard1v1Call ==
    /\ pwKind = "1v1"
    /\ pwOut = NoneV
    /\ pwOut' = Some(leaderboard_1v1(BoardPlayers, pwMatches, pwConf).val)
    /\ UNCHANGED <<pwKind, pwMatches, pwConf>>
    /\ UNCHANGED <<csvVars, auxVars, loadVars, queryVars, standVars, callVars>>

Init == CsvInit /\ AuxInit /\ LoadIdle /\ QueryInit /\ StandIdle /\ CallIdle /\ BoardIdle

Next ==
    \/ ModifyFile
    \/ DeleteFile
    \/ RestoreFile
    \/ \E t \in Threads : Call(t)
    \/ \E t \in Threads : GetMtime(t)
    \/ \E t \in Threads : AcquireLock(t)
    \/ \E t \in Threads : CheckCache(t)
    \/ \E t \in Threads : OpenFile(t)
    \/ \E t \in Threads : ReadRow(t)
    \/ \E t \in Threads : StoreRows(t)
    \/ \E t \in Threads : StoreMtime(t)
    \/ \E t \in Threads : ReturnCached(t)
    \/ \E t \in Threads : Finish(t)

Spec == Init /\ [][Next]_vars

\* The auxiliary loaders under concurrent requests, their files changing.
NextAux ==
    \/ \E c \in AuxCaches : ModifyAuxFile(c)
    \/ \E t \in Threads, c \in AuxCaches : AuxCall(t, c)
    \/ \E t \in Threads : load_2v2_teams(t)
    \/ \E t \in Threads : load_2v2_matches(t)
    \/ \E t \in Threads : load_1v1_players(t)
    \/ \E t \in Threads : load_1v1_matches(t)
    \/ \E t \in Threads : AuxFinish(t)

SpecAux == Init /\ [][NextAux]_vars

\* Each loader applied to a file drawn as input, and the leaderboards built from
\* what it loaded.
InitLoad == CsvInit /\ AuxInit /\ LoadInit /\ QueryInit /\ StandIdle /\ CallIdle /\ BoardIdle

NextLoad ==
    \/ LoadResultsFile
    \/ Load2v2TeamsFile
    \/ Load2v2MatchesFile
    \/ Load1v1PlayersFile
    \/ Load1v1MatchesFile
    \/ LoadTeamDataFile
    \/ FileAppears
    \/ BuildLeaderboard
    \/ Build2v2Leaderboard
    \/ Build1v1Leaderboard

SpecLoad == InitLoad /\ [][NextLoad]_vars

\* The handlers of the pages built from league_data.csv and team_data.csv, one
\* request at a time, league_data.csv changing between requests.
NextQuery ==
    \/ ModifyFile
    \/ DeleteFile
    \/ RestoreFile
    \/ \E s \in SeasonIds : show_leaderboard(Some(s))
    \/ show_leaderboard(NoneV)
    \/ \E s \in SeasonIds, tier \in TierNames : show_leaderboard_tier(s, tier)
    \/ \E s \in SeasonIds : society_season_overview(s)
    \/ \E s \in SeasonIds, tier \in TierNames : society_tier_page(s, tier)
    \/ \E s \in SeasonIds : show_teams_overview(s)
    \/ \E team \in EntityIds, s \in SeasonIds : team_detail(team, s)
    \/ head_to_head("GET", <<>>, <<>>)
    \/ \E p1, p2 \in FormNames : head_to_head("POST", p1, p2)

SpecQuery == Init /\ [][NextQuery]_vars

\* The handlers of the 2v2 and 1v1 pages, one request at a time.
NextPages ==
    \/ \E conf \in ConfNames : leaderboard_2v2_page(conf)
    \/ results_2v2
    \/ \E team \in EntityIds : team_page_2v2(team)
    \/ \E conf \in ConfNames : leaderboard_1v1_page(conf)
    \/ results_1v1
    \/ \E pid \in EntityIds : player_page_1v1(pid)

SpecPages == Init /\ [][NextPages]_vars

\* calculate_team_standings on drawn assignments and scores.
InitStand == CsvInit /\ AuxInit /\ LoadIdle /\ QueryInit /\ StandInit /\ CallIdle /\ BoardIdle

NextStand ==
    \/ BeginStandings
    \/ StandingsTurn
    \/ StandingsTeamRecords
    \/ StandingsReturn

SpecStand == InitStand /\ [][NextStand]_vars

\* The rows load_csv_cached returns when league_data.csv holds the scores of
\* event e1 of the season and nothing else.
SeasonRowsOf(score1, score2, season) ==
    LET rows_with_other == LeagueRowsOf(score1, score2, season)
    IN  SubSeq(rows_with_other, 2, Len(rows_with_other))

\* team_detail and calculate_team_standings on the same data: two assignments
\* of the season in event e1, and the scores of that event with or without a
\* row of another season that has the same event_id.
DetailInit ==
    /\ sSeason \in StandingSeasons
    /\ \E r1, r2 \in AssignmentsIn({<<"e", "1">>}, TeamIds, {sSeason}) :
            sAssignments = <<r1, r2>>
    /\ \E score1, score2 \in ScoreTexts :
            sLeague \in {LeagueRowsOf(score1, score2, sSeason),
                         SeasonRowsOf(score1, score2, sSeason)}
    /\ sStandings = <<>>
    /\ sCursor = 0
    /\ sPhase = "start"
    /\ sResult = NoneV

InitDetail == CsvInit /\ AuxInit /\ LoadIdle /\ QueryInit /\ DetailInit /\ CallIdle /\ BoardIdle

SpecDetail == InitDetail /\ [][NextStand]_vars

\* head_to_head called on drawn rows.
InitCompare == CsvInit /\ AuxInit /\ LoadIdle /\ QueryInit /\ StandIdle /\ CompareInit /\ BoardIdle

NextCompare ==
    \/ \E player1, player2 \in PostedNames : HeadToHeadPost(player1, player2)
    \/ HeadToHeadGet

SpecCompare == InitCompare /\ [][NextCompare]_vars

\* calculate_player_stats called on drawn rows.
InitStats == CsvInit /\ AuxInit /\ LoadIdle /\ QueryInit /\ StandIdle /\ StatsInit /\ BoardIdle

NextStats == CallPlayerStats

SpecStats == InitStats /\ [][NextStats]_vars

\* The pairwise leaderboards called on drawn matches.
InitBoard ==
    CsvInit /\ AuxInit /\ LoadIdle /\ QueryInit /\ StandIdle /\ CallIdle /\ BoardInit

NextBoard ==
    \/ Leaderboard2v2Call
    \/ Leaderboard1v1Call

SpecBoard == InitBoard /\ [][NextBoard]_vars

\* ------------------------------------------- claims about load_csv_cached

\* The row lists a complete load of some version of the file produces.
CompleteLoads == {LoadResultRows(CSVContent(v)) : v \in 1..MaxMtime}

\* C1: with threads calling load_csv_cached while the file changes, the cached
\* rows and the cached timestamp are written only by the thread holding the lock
\* and are set together (when the lock is free both are unset, or both are set
\* and the rows are a whole load of a version no older than the timestamp), and
\* every call that returns the cache returns the whole row list of one load,
\* never a partly built one.
C1_ConsistentSnapshots ==
    /\ \A t \in Threads :
         pc[t] \in {"check", "open", "read", "store_rows", "store_mtime", "return"}
            => csv_lock = t
    /\ csv_lock = 0 =>
         /\ (cached_rows = NoneV) = (cached_mtime = NoneV)
         /\ cached_rows # NoneV =>
              \E v \in cached_mtime.v..MaxMtime :
                  cached_rows.v = LoadResultRows(CSVContent(v))
    /\ \A t \in Threads : ret[t].kind = "rows" => ret[t].val \in CompleteLoads

\* C1 witness: a reload is half way through building its row list, over a cache
\* that already holds an earlier load, while another thread waits for the lock.
C1_Witness ==
    \E t, u \in Threads :
        /\ t # u
        /\ pc[t] = "read"
        /\ Len(rows[t]) > 0
        /\ Len(rows[t]) < Len(f[t])
        /\ cached_rows # NoneV
        /\ pc[u] = "acquire"

\* C2: when a cached value exists and the timestamp the call read equals the
\* timestamp recorded at the last load, the call goes straight to its return
\* without opening the file and leaves the cache alone, and it returns the
\* cached rows.
C2_UnchangedFileServedFromCache ==
    [][\A t \in Threads :
          /\ ( /\ pc[t] = "check"
               /\ cached_rows # NoneV
               /\ cached_mtime = Some(current_mtime[t])
               /\ pc'[t] # pc[t] )
             => ( /\ pc'[t] = "return"
                  /\ ~opened'[t]
                  /\ cached_rows' = cached_rows
                  /\ cached_mtime' = cached_mtime )
          /\ ( pc[t] = "return" /\ pc'[t] = "done" /\ ~opened[t] )
             => ret'[t] = Rows(cached_rows.v)
      ]_vars

\* C2 witness: a call has returned the cached rows without opening the file.
C2_Witness ==
    \E t \in Threads :
        /\ pc[t] = "done"
        /\ ret[t].kind = "rows"
        /\ ~opened[t]
        /\ cached_rows = Some(ret[t].val)

\* C3: a call that meets the missing file, at the timestamp check or at the
\* read that follows it, ends returning an empty result, without raising, and
\* leaves the cached rows and the cached timestamp as they were.
C3_MissingFileReturnsEmpty ==
    [][\A t \in Threads :
          ( /\ pc[t] \in {"getmtime", "open"}
            /\ ~csvExists
            /\ pc'[t] # pc[t] )
          => ( /\ pc'[t] = "done"
               /\ ret'[t] = EmptyResult
               /\ cached_rows' = cached_rows
               /\ cached_mtime' = cached_mtime )
      ]_vars

\* ------------------------------------------------ claims about every cache

\* C4: for every cache, once the backing file has changed since the last load,
\* a read does not answer from the cache: a call that finds a cached value and
\* goes on to return it (for the main cache, with the file still as it was when
\* the call read its timestamp) finds there the rows of the file as it is now.
C4_ChangedFileIsReloaded ==
    [][ /\ \A t \in Threads :
              ( /\ pc[t] = "check"
                /\ pc'[t] = "return"
                /\ csvExists
                /\ csvMtime = current_mtime[t] )
              => cached_rows = Some(LoadResultRows(CSVContent(csvMtime)))
        /\ \A t \in Threads, c \in AuxCaches :
              ( /\ apc[t] = "check"
                /\ acache[t] = c
                /\ apc'[t] = "return" )
              => AuxCached(c) = Some(AuxLoad(c, auxVer[c]).val)
      ]_vars

\* Thread t is inside the check-load-store sequence of the main cache.
InCsvSequence(t) ==
    pc[t] \in {"check", "open", "read", "store_rows", "store_mtime", "return"}

\* Thread t has found cache c empty and has not yet stored what it loads.
InAuxSequence(t, c) == acache[t] = c /\ apc[t] \in {"load", "store"}

\* C5: for each cache, no two threads are at the same time inside the sequence
\* 'check for a cached value, load the file, store the result'.
C5_LoadSequenceSerialized ==
    \A t, u \in Threads :
        t # u =>
            /\ ~(InCsvSequence(t) /\ InCsvSequence(u))
            /\ \A c \in AuxCaches : ~(InAuxSequence(t, c) /\ InAuxSequence(u, c))

\* ------------------------------------------------ claims about the loaders

\* The player ids written in the results file: the player_id fields that are
\* integers.
PresentPlayerIds ==
    {IntValue(loadFile[i].player_id) :
        i \in {j \in 1..Len(loadFile) : ~IntRaises(loadFile[j].player_id)}}

\* C8: the leaderboard built from the loaded results has entries only for
\* player ids written in the file, and an entry counts in events_played only
\* the lines that carry its id: a line whose player_id is missing, empty or not
\* a number makes no entry and is counted in none.
C8_AbsentPlayerIdExcluded ==
    (loadKind = "results" /\ board # NoneV) =>
        \A k \in 1..Len(board.v) :
            /\ board.v[k].player_id # NoneV
            /\ board.v[k].player_id.v \in PresentPlayerIds
            /\ board.v[k].events_played =
                  Cardinality({j \in 1..Len(loadFile) :
                                  /\ ~IntRaises(loadFile[j].player_id)
                                  /\ IntValue(loadFile[j].player_id) = board.v[k].player_id.v})

\* Line i of the matches file has a point_diff that is there and is no integer.
UnparsablePointDiff(i) ==
    /\ loadFile[i].point_diff # StrNone
    /\ loadFile[i].point_diff # <<>>
    /\ ~IntParses(loadFile[i].point_diff)

\* The loaded matches with every match of an unparsable point_diff made a
\* fixture without result.
UnparsableAsFixtures ==
    [i \in 1..Len(loadFile) |->
        IF UnparsablePointDiff(i)
        THEN [loadOut.v.val[i] EXCEPT !.point_diff = NoneV]
        ELSE loadOut.v.val[i]]

\* C9: a match line whose point_diff is present but is no integer is loaded
\* with point_diff None, and the pairwise leaderboard is the one in which that
\* match is a fixture without result: it changes no wins, losses, matches
\* played or point differential.
C9_UnparsablePointDiffIsNone ==
    /\ (Loaded("2v2_matches") \/ Loaded("1v1_matches")) =>
          \A i \in 1..Len(loadFile) :
              UnparsablePointDiff(i) => loadOut.v.val[i].point_diff = NoneV
    /\ (Loaded("2v2_matches") /\ board # NoneV) =>
          board.v = leaderboard_2v2(Load2v2Teams(Teams2v2Content(1)).val,
                                    UnparsableAsFixtures, StrNone).val.leaderboard
    /\ (Loaded("1v1_matches") /\ board # NoneV) =>
          board.v = leaderboard_1v1(Load1v1Players(Players1v1Content(1)).val,
                                    UnparsableAsFixtures, StrNone).val.leaderboard

\* C10: whatever the fields of the lines of a file that is on disk (missing,
\* empty, not a number), no loader raises, and the loaders that build a list
\* of rows emit one row for every line of the file.
C10_MalformedRowNeverRaises ==
    (loadOut # NoneV /\ ~loadMissing) =>
        /\ ~loadOut.v.raises
        /\ loadKind \in {"results", "2v2_matches", "1v1_matches"} =>
              Len(loadOut.v.val) = Len(loadFile)

\* ------------------------------------------ claims about the request handlers

\* C6: no request changes what a cache holds. In every step, a cache of an
\* auxiliary file that is filled keeps its value (the same rows in the same
\* order, each with the same fields and values), and so do the cached rows of
\* league_data.csv unless the step reloads them for a new timestamp.
C6_QueriesLeaveCachesAlone ==
    [][/\ \A c \in AuxCaches : AuxCached(c) # NoneV => AuxCached(c)' = AuxCached(c)
       /\ (cached_rows # NoneV /\ cached_mtime' = cached_mtime) => cached_rows' = cached_rows
      ]_vars

\* The seasons of the rows of team_data.csv.
TeamDataSeasons == SeasonsOf(LoadTeamData(TeamDataContent).val.team_assignments)

\* C7: each of the six season-scoped handlers, asked for a season id that is in
\* no loaded row (of league_data.csv for the leaderboards, the overview and the
\* tier page; of team_data.csv for the team standings and the team detail),
\* answers 404.
C7_UnknownSeasonNotFound ==
    [][\A s \in SeasonIds :
          /\ s \notin SeasonsOf(CsvData) =>
                /\ show_leaderboard(Some(s)) => response'.status = 404
                /\ society_season_overview(s) => response'.status = 404
                /\ \A tier \in TierNames :
                      /\ show_leaderboard_tier(s, tier) => response'.status = 404
                      /\ society_tier_page(s, tier) => response'.status = 404
          /\ s \notin TeamDataSeasons =>
                /\ show_teams_overview(s) => response'.status = 404
                /\ \A team \in EntityIds : team_detail(team, s) => response'.status = 404
      ]_vars

\* The auxiliary tables: every loader but the one of league_data.csv.
AuxTables == Loaders \ {"results"}

\* C11: the loader of an auxiliary table whose file is not on disk does not
\* raise: it returns an empty lookup (for load_team_data, no teams and no
\* assignments).
C11_MissingAuxFileGivesEmpty ==
    (loadKind \in AuxTables /\ loadMissing /\ loadOut # NoneV) =>
        /\ ~loadOut.v.raises
        /\ loadOut.v.val = IF loadKind = "team_data" THEN NoTeamData ELSE <<>>

\* --------------------------------------- claims about the team standings

\* The call has computed its score tables.
StandingsBegun == sPhase \in {"matches", "records", "done"}

\* The sum of the score fields of the rows of league_data of an event.
EventScoreSum(event) ==
    LET rows_of_event == SelectSeq(sLeague, LAMBDA ld : ld.event_id = event)
        F[n \in 0..Len(rows_of_event)] ==
            IF n = 0 THEN 0 ELSE F[n - 1] + rows_of_event[n].score
    IN  F[Len(rows_of_event)]

\* C12: the society average of an event is the floor of the mean of the scores
\* recorded for it (a \div n is the floor of a / n), in calculate_team_standings
\* over the scores of player_scores and in team_detail over the rows of the
\* event.
C12_SocietyAverageIsFloor ==
    StandingsBegun =>
        /\ \A i \in 1..Len(player_scores) :
              player_scores[i].val # <<>> =>
                  AvgScoreOf(society_averages, player_scores[i].key)
                      = SumScores(player_scores[i].val) \div Len(player_scores[i].val)
        /\ \A event \in EventIds :
              TeamDetailSocietyAvg(sLeague, event) # NoneV =>
                  TeamDetailSocietyAvg(sLeague, event).v
                      = EventScoreSum(event)
                          \div Len(SelectSeq(sLeague, LAMBDA ld : ld.event_id = event))

\* The sum of matches_played over the teams.
TotalMatchesPlayed(team_standings) ==
    LET F[n \in 0..Len(team_standings)] ==
            IF n = 0 THEN 0 ELSE F[n - 1] + team_standings[n].val.matches_played
    IN  F[Len(team_standings)]

\* Assignment k of the season is one of two reciprocal assignments: some
\* assignment of its opponent, in the same event, points back at its player.
Reciprocal(k) ==
    LET a == season_assignments[k]
    IN  /\ a.opponent_player_id.isint
        /\ a.opponent_player_id.id # a.player_id
        /\ \E j \in 1..Len(season_assignments) :
              /\ season_assignments[j].event = a.event
              /\ season_assignments[j].player_id = a.opponent_player_id.id
              /\ season_assignments[j].opponent_player_id.isint
              /\ season_assignments[j].opponent_player_id.id = a.player_id

\* What the turn of assignment k must add to the sum of matches_played: 1 for
\* a fixture against the average; 2 for a fixture against a player who has an
\* assignment in the event, when the turn is that of the smaller player_id,
\* and 0 when it is that of the larger.
MatchesCounted(k) ==
    LET a == season_assignments[k]
    IN  IF IsAvg(a.opponent_player_id) THEN 1
        ELSE IF OpponentAssignments(season_assignments, a) # <<>>
                  /\ a.player_id < a.opponent_player_id.id
        THEN 2
        ELSE 0

\* C13: a fixture of two reciprocal assignments is counted once, from the
\* assignment of the smaller player_id: after any number of turns the sum of
\* matches_played over the teams is the sum of MatchesCounted over the turns
\* made, to which a reciprocal fixture gives 2 from one of its two assignments
\* and 0 from the other, in whatever order they stand.
C13_ReciprocalFixtureCountedOnce ==
    StandingsBegun =>
        /\ TotalMatchesPlayed(sStandings)
              = LET F[n \in 0..sCursor] == IF n = 0 THEN 0 ELSE F[n - 1] + MatchesCounted(n)
                IN  F[sCursor]
        /\ \A k \in 1..Len(season_assignments) :
              Reciprocal(k) =>
                  MatchesCounted(k) =
                      IF season_assignments[k].player_id
                            < season_assignments[k].opponent_player_id.id
                      THEN 2 ELSE 0

\* Two reciprocal assignments, that of the larger player_id first, have both
\* had their turn and the fixture counts 2 matches played.
C13_Witness ==
    /\ sPhase = "matches"
    /\ sCursor = 2
    /\ Len(season_assignments) = 2
    /\ Reciprocal(1) /\ Reciprocal(2)
    /\ season_assignments[1].player_id > season_assignments[2].player_id
    /\ season_assignments[1].opponent_player_id.id = season_assignments[2].player_id
    /\ TotalMatchesPlayed(sStandings) = 2

\* The step is the turn of an assignment against the society average in an
\* event for which no score is recorded.
ZeroEntrantAvgTurn ==
    /\ sPhase = "matches"
    /\ sCursor < Len(season_assignments)
    /\ sCursor' = sCursor + 1
    /\ IsAvg(season_assignments[sCursor + 1].opponent_player_id)
    /\ ~DictHas(player_scores, season_assignments[sCursor + 1].event)

\* The standing of the team of the assignment in turn, before and after it.
TurnTeamBefore == DictGet(sStandings, season_assignments[sCursor + 1].team_id)
TurnTeamAfter == DictGet(sStandings', season_assignments[sCursor + 1].team_id)

\* C14, as claimed: a fixture against the society average in an event with no
\* scored entrant gives the team no win, no loss, no tie and no match played.
C14_ZeroEntrantsNoResult ==
    [][ZeroEntrantAvgTurn =>
          /\ TurnTeamAfter.wins = TurnTeamBefore.wins
          /\ TurnTeamAfter.losses = TurnTeamBefore.losses
          /\ TurnTeamAfter.ties = TurnTeamBefore.ties
          /\ TurnTeamAfter.matches_played = TurnTeamBefore.matches_played
      ]_vars

\* C14, amended: such a fixture is a loss of the team, whose player has no
\* score: one loss and one match played more, no win, no tie, no point; no
\* average is computed for the event (nothing is divided by a count of zero)
\* and the other teams keep their standings.
C14_ZeroEntrantsIsLoss ==
    [][ZeroEntrantAvgTurn =>
          /\ ~DictHas(society_averages, season_assignments[sCursor + 1].event)
          /\ TurnTeamAfter.losses = TurnTeamBefore.losses + 1
          /\ TurnTeamAfter.matches_played = TurnTeamBefore.matches_played + 1
          /\ TurnTeamAfter.wins = TurnTeamBefore.wins
          /\ TurnTeamAfter.ties = TurnTeamBefore.ties
          /\ TurnTeamAfter.points = TurnTeamBefore.points
          /\ \A i \in 1..Len(sStandings) :
                sStandings[i].key # season_assignments[sCursor + 1].team_id =>
                    sStandings'[i] = sStandings[i]
      ]_vars

\* A fixture against the average in event e2, where nobody scored, has had its
\* turn and the team has its loss.
C14_Witness ==
    /\ sPhase = "matches"
    /\ sCursor = 1
    /\ IsAvg(season_assignments[1].opponent_player_id)
    /\ ~DictHas(player_scores, season_assignments[1].event)
    /\ DictGet(sStandings, season_assignments[1].team_id).losses = 1
    /\ DictGet(sStandings, season_assignments[1].team_id).matches_played = 1

\* What the step adds to the wins, losses and ties of a team.
TurnGain(team_id) ==
    [wins   |-> DictGet(sStandings', team_id).wins - DictGet(sStandings, team_id).wins,
     losses |-> DictGet(sStandings', team_id).losses - DictGet(sStandings, team_id).losses,
     ties   |-> DictGet(sStandings', team_id).ties - DictGet(sStandings, team_id).ties]

\* 1 if the condition holds, else 0.
OneIf(cond) == IF cond THEN 1 ELSE 0

\* C16: a fixture is resolved as in golf. Against the society average a score
\* below the average is a win, the same score a tie, a higher score a loss and
\* no score a loss. Against another player the lower score wins and equal
\* scores tie; if only one side has a score that side wins, and if neither has
\* one both sides get a tie.
C16_GolfStyleResolution ==
    [][(sPhase = "matches" /\ sCursor < Len(season_assignments) /\ sCursor' = sCursor + 1) =>
          LET a == season_assignments[sCursor + 1]
              score1 == PlayerScoreOf(player_scores, a.event, a.player_id)
              avg == AvgScoreOf(society_averages, a.event)
              opps == OpponentAssignments(season_assignments, a)
              score2 == PlayerScoreOf(player_scores, a.event, a.opponent_player_id.id)
              team2 == opps[1].team_id
              win1 == \/ score1 # NoneV /\ score2 = NoneV
                      \/ score1 # NoneV /\ score2 # NoneV /\ score1.v < score2.v
              win2 == \/ score2 # NoneV /\ score1 = NoneV
                      \/ score1 # NoneV /\ score2 # NoneV /\ score2.v < score1.v
              tie == \/ score1 = NoneV /\ score2 = NoneV
                     \/ score1 # NoneV /\ score2 # NoneV /\ score1.v = score2.v
          IN  IF IsAvg(a.opponent_player_id)
              THEN TurnGain(a.team_id) =
                      [wins   |-> OneIf(score1 # NoneV /\ score1.v < avg),
                       losses |-> OneIf(score1 = NoneV \/ score1.v > avg),
                       ties   |-> OneIf(score1 # NoneV /\ score1.v = avg)]
              ELSE (opps # <<>> /\ a.player_id < a.opponent_player_id.id) =>
                      \A t \in {a.team_id, team2} :
                          TurnGain(t) =
                              [wins   |-> OneIf(t = a.team_id /\ win1)
                                             + OneIf(t = team2 /\ win2),
                               losses |-> OneIf(t = a.team_id /\ win2)
                                             + OneIf(t = team2 /\ win1),
                               ties   |-> OneIf(t = a.team_id /\ tie)
                                             + OneIf(t = team2 /\ tie)]
      ]_vars

\* The first assignment was a fixture of player 1, who has no score, with
\* player 2, who has one: the team of player 2 has the win, the other the loss.
C16_Witness ==
    /\ sPhase = "matches"
    /\ sCursor = 1
    /\ season_assignments[1].player_id = 1
    /\ season_assignments[1].opponent_player_id.isint
    /\ season_assignments[1].opponent_player_id.id = 2
    /\ OpponentAssignments(season_assignments, season_assignments[1]) # <<>>
    /\ PlayerScoreOf(player_scores, season_assignments[1].event, 1) = NoneV
    /\ PlayerScoreOf(player_scores, season_assignments[1].event, 2) # NoneV
    /\ LET team2 == OpponentAssignments(season_assignments, season_assignments[1])[1].team_id
       IN  /\ team2 # season_assignments[1].team_id
           /\ DictGet(sStandings, team2).wins = 1
           /\ DictGet(sStandings, season_assignments[1].team_id).losses = 1

\* The events of the season in which the team has an assignment.
EventsAssigned(team_id) ==
    {season_assignments[i].event :
        i \in {j \in 1..Len(season_assignments) : season_assignments[j].team_id = team_id}}

\* C17: a team gets one team-level credit for every event in which it has an
\* assignment, from its points there (in half points): in season 2 a win from
\* 2.5, a tie from 2.0; in any later season a win from 3.0, a tie from 2.5; a
\* loss below. The team's wins, ties and losses add up to its matches played,
\* the number of those events.
C17_TeamCreditPerEvent ==
    sPhase \in {"records", "done"} =>
        \A i \in 1..Len(sStandings) :
            LET stats == sStandings[i].val
                events == EventsAssigned(sStandings[i].key)
                win_from == IF sSeason = 2 THEN 5 ELSE 6
                tie_from == IF sSeason = 2 THEN 4 ELSE 5
                PointsIn(e) == IF DictHas(stats.points_by_event, e)
                               THEN DictGet(stats.points_by_event, e) ELSE 0
            IN  /\ stats.team_wins = Cardinality({e \in events : PointsIn(e) >= win_from})
                /\ stats.team_ties =
                      Cardinality({e \in events : PointsIn(e) >= tie_from /\ PointsIn(e) < win_from})
                /\ stats.team_losses = Cardinality({e \in events : PointsIn(e) < tie_from})
                /\ stats.team_matches_played = Cardinality(events)
                /\ stats.team_wins + stats.team_ties + stats.team_losses
                      = stats.team_matches_played

\* Team 1 has 2.5 points in event e1, which is a team tie in season 3 and a
\* team win in season 2.
C17_Witness ==
    /\ sPhase = "done"
    /\ sSeason = 3
    /\ DictHas(sStandings, 1)
    /\ DictHas(DictGet(sStandings, 1).points_by_event, <<"e", "1">>)
    /\ DictGet(DictGet(sStandings, 1).points_by_event, <<"e", "1">>) = 5
    /\ DictGet(sStandings, 1).team_ties = 1

\* The teams that have an assignment in the season of the call.
TeamsAssignedInSeason ==
    {sAssignments[i].team_id : i \in {j \in 1..Len(sAssignments) : sAssignments[j].season = sSeason}}

\* C18: the points of a team are 1.0 for each of its wins and 0.5 for each of
\* its ties (in half points, 2 and 1), and only teams that have an assignment
\* in the season have a standing, in the loop and in the list returned.
C18_PointsFromWinsAndTies ==
    /\ StandingsBegun =>
          \A i \in 1..Len(sStandings) :
              /\ sStandings[i].val.points = 2 * sStandings[i].val.wins + sStandings[i].val.ties
              /\ sStandings[i].key \in TeamsAssignedInSeason
    /\ sResult # NoneV =>
          \A i \in 1..Len(sResult.v) :
              /\ sResult.v[i].val.points = 2 * sResult.v[i].val.wins + sResult.v[i].val.ties
              /\ sResult.v[i].key \in TeamsAssignedInSeason

\* The list returned has a team with a tie and no win, 0.5 points, and leaves
\* out team 1, whose only assignment is of another season.
C18_Witness ==
    /\ sResult # NoneV
    /\ \E i \in 1..Len(sResult.v) :
          /\ sResult.v[i].val.wins = 0
          /\ sResult.v[i].val.ties = 1
          /\ sResult.v[i].val.points = 1
    /\ \E j \in 1..Len(sAssignments) :
          /\ sAssignments[j].season # sSeason
          /\ sAssignments[j].team_id \notin {sResult.v[i].key : i \in 1..Len(sResult.v)}

\* The reciprocity invariant of the assignments of the season: an assignment
\* against a player has, in the same event, an assignment of that player
\* against its own player.
ReciprocalAssignments(tas) ==
    \A i \in 1..Len(tas) :
        tas[i].opponent_player_id.isint =>
            \E j \in 1..Len(tas) :
                /\ tas[j].event = tas[i].event
                /\ tas[j].player_id = tas[i].opponent_player_id.id
                /\ tas[j].opponent_player_id.isint
                /\ tas[j].opponent_player_id.id = tas[i].player_id

\* The rows of team_data.csv in every order.
RowOrders(tas) ==
    {[i \in 1..Len(tas) |-> tas[q[i]]] :
        q \in {order \in [1..Len(tas) -> 1..Len(tas)] :
                  \A i, j \in 1..Len(tas) : order[i] = order[j] => i = j}}

\* The record of a team in the list calculate_team_standings returns.
TeamRecord(standings, team_id) ==
    LET stats == DictGet(standings, team_id)
    IN  [wins |-> stats.wins, losses |-> stats.losses, ties |-> stats.ties,
         points |-> stats.points, matches_played |-> stats.matches_played,
         team_wins |-> stats.team_wins, team_losses |-> stats.team_losses,
         team_ties |-> stats.team_ties,
         team_matches_played |-> stats.team_matches_played]

\* Every order of the rows gives every team the record it has in the list
\* returned.
SameUnderEveryOrder ==
    \A tas \in RowOrders(sAssignments) :
        LET other == calculate_team_standings(TeamsOfAssignments(tas), tas, sLeague, sSeason)
        IN  /\ DictKeys(other) = DictKeys(sResult.v)
            /\ \A t \in DictKeys(sResult.v) :
                  TeamRecord(other, t) = TeamRecord(sResult.v, t)

\* No player has two assignments in the same event of the season.
OneAssignmentPerEvent(tas) ==
    \A i, j \in 1..Len(tas) :
        (tas[i].event = tas[j].event /\ tas[i].player_id = tas[j].player_id) => i = j

\* C19, as claimed: when the assignments of the season satisfy the reciprocity
\* invariant, calculate_team_standings gives every team the same wins, losses,
\* ties, points, matches played and team-level record whatever the order of
\* the rows.
C19_RowOrderInvariance ==
    (sResult # NoneV /\ ReciprocalAssignments(season_assignments)) => SameUnderEveryOrder

\* C19, amended: the same, for assignments that satisfy the reciprocity
\* invariant and give no player two assignments in the same event.
C19_RowOrderInvarianceOnePerEvent ==
    (/\ sResult # NoneV
     /\ ReciprocalAssignments(season_assignments)
     /\ OneAssignmentPerEvent(season_assignments)) => SameUnderEveryOrder

\* Three assignments, one per player and event, two of them a reciprocal pair
\* of teams 1 and 2 whose row of the larger player id comes first; the
\* fixture is decided and the list returned.
C19_Witness ==
    /\ sResult # NoneV
    /\ Len(season_assignments) = 3
    /\ ReciprocalAssignments(season_assignments)
    /\ OneAssignmentPerEvent(season_assignments)
    /\ \E i, j \in 1..3 :
          /\ i < j
          /\ season_assignments[i].player_id = 2
          /\ season_assignments[j].player_id = 1
          /\ season_assignments[j].opponent_player_id.isint
          /\ season_assignments[j].opponent_player_id.id = 2
          /\ season_assignments[i].event = season_assignments[j].event
          /\ season_assignments[i].team_id # season_assignments[j].team_id
    /\ \E t \in DictKeys(sResult.v) : DictGet(sResult.v, t).wins = 1

\* ------------------------------------------------ claims about head_to_head

\* The rows given to head_to_head that carry the name, whatever its case, in
\* the event of the season.
RowsOfNamed(name, season, event_id) ==
    {i \in 1..Len(h2hData) :
        /\ lower(h2hData[i].player_name) = lower(strip(name))
        /\ h2hData[i].season = season
        /\ h2hData[i].event_id = event_id}

\* The events, season and event_id, in which each of the two players named in
\* the form has exactly one row.
SingleRowEvents ==
    {e \in {<<h2hData[i].season, h2hData[i].event_id>> : i \in 1..Len(h2hData)} :
        /\ Cardinality(RowsOfNamed(h2hForm.player1, e[1], e[2])) = 1
        /\ Cardinality(RowsOfNamed(h2hForm.player2, e[1], e[2])) = 1}

\* C15: head_to_head compares exactly the events in which each of the two
\* players named has exactly one row; the lower score of the two rows is
\* recorded as the winner's, and equal scores count as a tie and as a win of
\* neither.
C15_ComparesSingleRowEvents ==
    (h2hOut # NoneV /\ ~h2hOut.v.error) =>
        LET summary == h2hOut.v.summary
            compared == summary.common_events
            Score(name, e) ==
                h2hData[CHOOSE i \in RowsOfNamed(name, e[1], e[2]) : TRUE].score
        IN  /\ {<<compared[i].season, compared[i].event_id>> : i \in 1..Len(compared)}
                  = SingleRowEvents
            /\ Len(compared) = Cardinality(SingleRowEvents)
            /\ \A i \in 1..Len(compared) :
                  LET e == <<compared[i].season, compared[i].event_id>>
                      s1 == Score(h2hForm.player1, e)
                      s2 == Score(h2hForm.player2, e)
                  IN  e \in SingleRowEvents =>
                          compared[i].winner =
                              IF s1 < s2 THEN strip(h2hForm.player1)
                              ELSE IF s2 < s1 THEN strip(h2hForm.player2)
                              ELSE TieText
            /\ summary.player1_wins =
                  Cardinality({e \in SingleRowEvents :
                                  Score(h2hForm.player1, e) < Score(h2hForm.player2, e)})
            /\ summary.player2_wins =
                  Cardinality({e \in SingleRowEvents :
                                  Score(h2hForm.player2, e) < Score(h2hForm.player1, e)})
            /\ summary.ties =
                  Cardinality({e \in SingleRowEvents :
                                  Score(h2hForm.player1, e) = Score(h2hForm.player2, e)})

\* --------------------------------------- claims about calculate_player_stats

\* The rows given to calculate_player_stats whose player_id is present.
RowsWithPlayerId == {i \in 1..Len(statsRows) : statsRows[i].player_id # NoneV}

\* sum of events_played over the entries of a leaderboard
EventsPlayedSum(leaderboard) ==
    LET F[n \in 0..Len(leaderboard)] ==
            IF n = 0 THEN 0 ELSE F[n - 1] + leaderboard[n].events_played
    IN  F[Len(leaderboard)]

\* C20: calculate_player_stats, given rows whose player_id is an int or None,
\* returns exactly one entry for each distinct player_id that is present, and
\* the events_played of its entries add up to the number of rows whose
\* player_id is present.
C20_OneEntryPerPresentId ==
    statsOut # NoneV =>
        /\ {statsOut.v[k].player_id : k \in 1..Len(statsOut.v)}
              = {statsRows[i].player_id : i \in RowsWithPlayerId}
        /\ Len(statsOut.v) = Cardinality({statsRows[i].player_id : i \in RowsWithPlayerId})
        /\ EventsPlayedSum(statsOut.v) = Cardinality(RowsWithPlayerId)

\* Three rows, one without player_id and two of player 0: the leaderboard has
\* the one entry of player 0, with two events played.
C20_Witness ==
    /\ statsOut # NoneV
    /\ Len(statsRows) = 3
    /\ Cardinality(RowsWithPlayerId) = 2
    /\ \A i \in RowsWithPlayerId : statsRows[i].player_id = Some(0)
    /\ Len(statsOut.v) = 1
    /\ statsOut.v[1].events_played = 2

\* ------------------------------------ claims about the pairwise leaderboards

\* The id of an entry of a pairwise board.
BoardEntryId(e) == IF pwKind = "2v2" THEN e.team_id ELSE e.player_id

\* The matches given that have a point_diff.
PlayedMatches == {i \in 1..Len(pwMatches) : pwMatches[i].point_diff # NoneV}

\* The sum of g over a finite set of match indices.
SumOver(S, g(_)) ==
    LET F[T \in SUBSET S] ==
            IF T = {} THEN 0
            ELSE LET i == CHOOSE x \in T : TRUE IN g(i) + F[T \ {i}]
    IN  F[S]

\* C21: in the pairwise leaderboards every match with a point_diff adds it to
\* the differential of its winner and takes it from that of its loser, and
\* counts as a win and a loss, for the entities of the selected conference; a
\* match without point_diff changes nothing: the board is the one of the
\* matches that have a point_diff.
C21_PointDiffAccumulates ==
    pwOut # NoneV =>
        /\ \A k \in 1..Len(pwOut.v.leaderboard) :
              LET e == pwOut.v.leaderboard[k]
                  id == BoardEntryId(e)
                  Won(i) == IF pwMatches[i].winner_id = id THEN 1 ELSE 0
                  Lost(i) == IF pwMatches[i].loser_id = id THEN 1 ELSE 0
                  Diff(i) == (Won(i) - Lost(i)) * pwMatches[i].point_diff.v
              IN  /\ e.point_diff = SumOver(PlayedMatches, Diff)
                  /\ e.wins = SumOver(PlayedMatches, Won)
                  /\ e.losses = SumOver(PlayedMatches, Lost)
                  /\ e.matches_played = e.wins + e.losses
        /\ LET played == SelectSeq(pwMatches, LAMBDA m : m.point_diff # NoneV)
           IN  pwOut.v = IF pwKind = "2v2"
                         THEN leaderboard_2v2(BoardTeams, played, pwConf).val
                         ELSE leaderboard_1v1(BoardPlayers, played, pwConf).val

\* Team 1 beat team 2 by 3 in one match and has a fixture without point_diff
\* with it: on the board of their conference team 1 has +3 and team 2 -3, one
\* match played each.
C21_Witness ==
    /\ pwOut # NoneV
    /\ pwKind = "2v2"
    /\ Len(pwMatches) = 2
    /\ \E i, j \in 1..2 :
          /\ pwMatches[i].point_diff = Some(3)
          /\ pwMatches[i].winner_id = 1 /\ pwMatches[i].loser_id = 2
          /\ pwMatches[j].point_diff = NoneV
    /\ \E k, l \in 1..Len(pwOut.v.leaderboard) :
          /\ pwOut.v.leaderboard[k].team_id = 1
          /\ pwOut.v.leaderboard[k].point_diff = 3
          /\ pwOut.v.leaderboard[k].matches_played = 1
          /\ pwOut.v.leaderboard[l].team_id = 2
          /\ pwOut.v.leaderboard[l].point_diff = -3

\* The sum and the number of the event_pr of the rows of a player.
RowsOfPlayer(pid) == {i \in 1..Len(statsRows) : statsRows[i].player_id = pid}
EventPrSum(pid) ==
    LET F[n \in 0..Len(statsRows)] ==
            IF n = 0 THEN 0
            ELSE F[n - 1] + IF statsRows[n].player_id = pid THEN statsRows[n].event_pr ELSE 0
    IN  F[Len(statsRows)]

\* C22: the prettyrating of an entry is the mean of event_pr over the rows of
\* its player rounded to the nearest integer, an exact half to the even one:
\* it is within a half of the mean, and even when it is a half away (84.5
\* gives 84, 85.5 gives 86).
C22_PrettyratingRoundsHalfEven ==
    statsOut # NoneV =>
        \A k \in 1..Len(statsOut.v) :
            LET e == statsOut.v[k]
                n == Cardinality(RowsOfPlayer(e.player_id))
                total == EventPrSum(e.player_id)
                off == 2 * total - 2 * n * e.prettyrating
            IN  /\ n > 0
                /\ off <= n /\ -n <= off
                /\ (off = n \/ off = -n) => e.prettyrating % 2 = 0

\* The three rows of the worked example: player 1 first and third with event_pr
\* 90 and 80, player 2 second with 85. Player 1 comes first with 15 points, and
\* both have prettyrating 85.
C22_Witness ==
    /\ statsRows = << StatsRow(Some(1), <<<<"1">>, <<"1","0">>, <<"9","0">>>>),
                      StatsRow(Some(2), <<<<"2">>, <<"7">>, <<"8","5">>>>),
                      StatsRow(Some(1), <<<<"3">>, <<"5">>, <<"8","0">>>>) >>
    /\ statsOut # NoneV
    /\ Len(statsOut.v) = 2
    /\ statsOut.v[1].player_id = Some(1)
    /\ statsOut.v[1].points = 15
    /\ statsOut.v[1].prettyrating = 85
    /\ statsOut.v[2].player_id = Some(2)
    /\ statsOut.v[2].prettyrating = 85

\* ------------------------------------------- claims about the match listings

\* The matches without date come after all the dated ones.
UndatedLast(matches) ==
    \A i, j \in 1..Len(matches) :
        (i < j /\ matches[i].date = StrNone) => matches[j].date = StrNone

\* The pages that list matches by date.
DatedListings == {"results_2v2", "team_page_2v2", "results_1v1", "player_page_1v1"}

\* C23: a page that lists matches by date does not fail when some matches have
\* no date, and the lists the results pages sort have the matches without
\* date after all the dated ones.
C23_UndatedMatchesSortLast ==
    /\ response.route \in DatedListings => response.status # 500
    /\ response.route = "results_2v2" => UndatedLast(cached_matches.v)
    /\ response.route = "results_1v1" => UndatedLast(cached_1v1_matches.v)

\* ------------------------------------- claims about the cached timestamp

\* C24: with the timestamp of the file only increasing, the timestamp held in
\* the cache never moves backwards under concurrent calls of load_csv_cached:
\* no store replaces a recorded timestamp by an older one.
C24_CachedMtimeNeverMovesBack ==
    [][(cached_mtime # NoneV /\ cached_mtime' # NoneV) =>
          cached_mtime'.v >= cached_mtime.v]_vars

\* The number of entries of a match history with a given result.
HistoryCount(history, result) ==
    Cardinality({i \in 1..Len(history) : history[i].result = result})

\* The match history team_detail builds for a team from the rows of the call.
HistoryOf(team_id) == TeamDetailMatches(team_id, sSeason, sAssignments, sLeague)

\* C25: for assignments that satisfy the reciprocity invariant, the match
\* history team_detail builds for a team of the season has as many entries
\* with result Win, Loss and Tie as calculate_team_standings gives the team
\* wins, losses and ties.
C25_HistoryAgreesWithRecord ==
    (sResult # NoneV /\ ReciprocalAssignments(season_assignments)) =>
        \A t \in DictKeys(sResult.v) :
            /\ HistoryCount(HistoryOf(t), "Win") = DictGet(sResult.v, t).wins
            /\ HistoryCount(HistoryOf(t), "Loss") = DictGet(sResult.v, t).losses
            /\ HistoryCount(HistoryOf(t), "Tie") = DictGet(sResult.v, t).ties

====
